---- MODULE Spec2Model ----
(***************************************************************************)
(* Model of the streaming core of the terminal LLM client:                 *)
(*   render/block_buffered.py   BlockBuffer (block segmenter)              *)
(*   render/markdown_live.py    MarkdownStream (live renderer)             *)
(*   streaming_client.py        StreamingClient (orchestrator)             *)
(*   providers/bedrock.py, providers/azure.py   map_events (mappers)       *)
(*   debug/debug.py             SSEReader, stream_response_block           *)
(*   util/sse_client.py         iter_sse_lines                             *)
(* Strings are sequences of one-character strings.  Offsets into strings   *)
(* are 0-based as in Python; Take/Drop convert to TLA+ sequences.          *)
(***************************************************************************)
EXTENDS Integers, Sequences, FiniteSets, TLC

VARIABLES
    \* ---- BlockBuffer (render/block_buffered.py) ----
    pending,        \* BlockBuffer.pending
    in_code,        \* BlockBuffer.in_code
    close_ch,       \* fence character compiled into BlockBuffer._close_re, or NoFence
    fed,            \* history: concatenation of every text passed to feed
    blocks,         \* history: every block returned by feed, in order
    last_out,       \* the list returned by the latest feed call
    flushed,        \* history: the values returned by flush_remaining, in order
    nfeeds,         \* number of feed calls made
    \* ---- MarkdownStream (render/markdown_live.py) ----
    printed,        \* MarkdownStream.printed
    last_rendered,  \* MarkdownStream.last_rendered
    live,           \* MarkdownStream.live is not None
    waiting_active, \* MarkdownStream.waiting_active
    when_set,       \* MarkdownStream.when holds the time of a recent frame (not 0.0)
    console_out,    \* history: lines written to permanent output by live.console.print
    finalized,      \* history: update(..., final=True) was called on the stream
    live_view,      \* what the live region shows: the lines of the latest live.update
    thinking_buffer,   \* MarkdownStream.thinking_buffer without its header entry
    in_thinking_phase, \* MarkdownStream.in_thinking_phase
    thinking_out,   \* history: thinking texts written to permanent output
    \* ---- StreamingClient (streaming_client.py) ----
    method,         \* which call runs: "send_message" or "stream_with_live_rendering"
    has_executor,   \* StreamingClient.tool_executor is not None
    pc,             \* "idle" before the call, "loop" inside for-event, "returned" after
    text_buffer,    \* local text_buffer
    model_name,     \* local model_name (the empty string stands for None)
    tool_calls_made,   \* local tool_calls_made
    current_tool,   \* local current_tool
    tool_input_buffer, \* local tool_input_buffer
    self_abort,     \* StreamingClient._abort
    ABORT,          \* module global _ABORT
    result,         \* the StreamResult returned
    seen,           \* history: the events the loop pulled from _stream_events
    nproc,          \* history: how many of them passed the abort check
    executed,       \* history: the execute_tool calls made
    tool_errors,    \* history: the tool_ready events whose arguments failed to parse
    cancel_pending, \* the cancel key was pressed and waits unread in stdin
    failed,         \* history: the exception the transport raised, or "none"
    final_updates,  \* history: the text of each ms.update(text, final=True) call made
    \* ---- provider mappers (providers/bedrock.py, providers/azure.py) ----
    provider,       \* which map_events runs: "bedrock", "azure" or "direct" (no mapper)
    wire,           \* history: the payload lines the mapper consumed
    unread,         \* history: the lines of the stream that came after the generator ended
    lines_ended,    \* the line iterator is exhausted
    events,         \* history: the events the mapper yielded
    taken,          \* how many of the yielded events the consumer has pulled
    sent_model,     \* azure map_events local sent_model
    current_tool_calls, \* azure map_events local current_tool_calls (index -> call)
    accumulated_text,   \* azure map_events local accumulated_text
    has_finished,   \* azure map_events local has_finished
    mapper_done,    \* the generator has returned
    \* ---- queue-fed stream (debug/debug.py stream_response_block) ----
    resp_open,      \* the response's connection is open
    raw_read,       \* history: raw lines resp.iter_lines gave to the reader thread
    held,           \* the payload line the reader is about to put, as a 0/1-element list
    queue,          \* q: the bounded queue between reader and consumer
    reader_pc,      \* SSEReader.run: "new", "reading", "putting", "closing", "dead"
    stop_event,     \* the threading.Event stop
    closes,         \* history: who called response.close(), in order
    delivered,      \* history: the items iter_from_queue yielded to the mapper
    consumer_pc,    \* iter_from_queue and its caller: "idle", "poll", "cancelling",
                    \* "get", "timed_out", "returned", "exited"
    q_abort,        \* debug.py module global _abort
    \* ---- iter_sse_lines (util/sse_client.py) ----
    sse_pc,         \* "new", "iterating", "raised" (raise_for_status failed), "done"
    sse_raw,        \* history: the raw lines r.iter_lines gave
    sse_out         \* history: the items iter_sse_lines yielded

bvars == <<pending, in_code, close_ch, fed, blocks, last_out, flushed, nfeeds>>

mvars == <<printed, last_rendered, live, waiting_active, when_set, console_out, live_view,
           thinking_buffer, in_thinking_phase, thinking_out, finalized>>

cvars == <<method, has_executor, pc, text_buffer, model_name, tool_calls_made, current_tool,
           tool_input_buffer, self_abort, ABORT, result, seen, nproc, executed, failed,
           final_updates, tool_errors, cancel_pending>>

pvars == <<provider, wire, unread, lines_ended, events, taken, sent_model, current_tool_calls, accumulated_text,
           has_finished, mapper_done>>

qvars == <<resp_open, raw_read, held, queue, reader_pc, stop_event, closes, delivered,
           consumer_pc, q_abort>>

svars == <<sse_pc, sse_raw, sse_out>>

vars == <<bvars, mvars, cvars, pvars, qvars, svars>>

notB == <<mvars, cvars, pvars, qvars, svars>>

notM == <<bvars, cvars, pvars, qvars, svars>>

notQ == <<bvars, mvars, cvars, pvars, svars>>

notS == <<bvars, mvars, cvars, pvars, qvars>>

\* ------------------------------------------------------------------------
\* Generic helpers on sequences
\* ------------------------------------------------------------------------
Take(s, n) == SubSeq(s, 1, n)

Drop(s, n) == SubSeq(s, n + 1, Len(s))

Min(a, b) == IF a < b THEN a ELSE b

Max(a, b) == IF a > b THEN a ELSE b

IsPrefix(s, t) == Len(s) <= Len(t) /\ Take(t, Len(s)) = s

RECURSIVE Concat(_)
Concat(ss) == IF ss = <<>> THEN <<>> ELSE Head(ss) \o Concat(Tail(ss))

\* ------------------------------------------------------------------------
\* Characters
\* ------------------------------------------------------------------------
BQ == "BQ"

TILDE == "~"

LF == "LF"

SPC == " "

Whitespace == {LF, SPC}

NoFence == "none"

NoMatch == [start |-> -1, end |-> -1]

\* None / Optional[str], the return type of flush_remaining
NoneStr == [some |-> FALSE, val |-> <<>>]

SomeStr(s) == [some |-> TRUE, val |-> s]

\* ------------------------------------------------------------------------
\* The two fence regular expressions, by what re.search computes.
\* A match is [start, end) in 0-based offsets.
\* ------------------------------------------------------------------------
\* (?m)^ : offset p is at the beginning of a line
LineStart(s, p) == p = 0 \/ s[p] = LF

\* offset of the first LF at or after offset p, or -1 (str.find("\n", p))
RECURSIVE FindLF(_, _)
FindLF(s, p) ==
    IF p >= Len(s) THEN -1
    ELSE IF s[p + 1] = LF THEN p
    ELSE FindLF(s, p + 1)

\* str.find("\n\n"): offset of the first blank-line break, or -1
RECURSIVE FindPara(_, _)
FindPara(s, p) ==
    IF p + 2 > Len(s) THEN -1
    ELSE IF s[p + 1] = LF /\ s[p + 2] = LF THEN p
    ELSE FindPara(s, p + 1)

\* end offset of the maximal run of characters of set cs that starts at p
RECURSIVE RunEnd(_, _, _)
RunEnd(s, p, cs) ==
    IF p < Len(s) /\ s[p + 1] \in cs THEN RunEnd(s, p + 1, cs) ELSE p

\* offset just after the last LF in s[from, to), or -1
RECURSIVE LastLFEnd(_, _, _)
LastLFEnd(s, from, to) ==
    IF to <= from THEN -1
    ELSE IF s[to] = LF THEN to
    ELSE LastLFEnd(s, from, to - 1)

\* OPEN_FENCE_RE matched at offset p: line start, three or more backquotes or
\* three or more tildes, the rest of the line, and its line feed
OpenFenceAt(s, p) ==
    IF /\ LineStart(s, p)
       /\ p + 3 <= Len(s)
       /\ s[p + 1] \in {BQ, TILDE}
       /\ s[p + 2] = s[p + 1]
       /\ s[p + 3] = s[p + 1]
       /\ FindLF(s, p + 3) # -1
    THEN [start |-> p, end |-> FindLF(s, p + 3) + 1]
    ELSE NoMatch

RECURSIVE OpenFenceFrom(_, _)
OpenFenceFrom(s, p) ==
    IF p >= Len(s) THEN NoMatch
    ELSE IF OpenFenceAt(s, p) # NoMatch THEN OpenFenceAt(s, p)
    ELSE OpenFenceFrom(s, p + 1)

\* OPEN_FENCE_RE.search(s)
OpenFenceSearch(s) == OpenFenceFrom(s, 0)

\* CLOSE_FENCE_FMT % c matched at offset p: ^(?:c{3,})\s*$\n
\* c{3,} takes the whole run of c; \s* is greedy over blanks and line
\* feeds and backtracks to the last LF of the whitespace run, where $\n
\* matches.
CloseFenceAt(s, p, c) ==
    IF /\ LineStart(s, p)
       /\ p + 3 <= Len(s)
       /\ s[p + 1] = c /\ s[p + 2] = c /\ s[p + 3] = c
    THEN LET r == RunEnd(s, p, {c})
             w == RunEnd(s, r, Whitespace)
             e == LastLFEnd(s, r, w)
         IN  IF e = -1 THEN NoMatch ELSE [start |-> p, end |-> e]
    ELSE NoMatch

RECURSIVE CloseFenceFrom(_, _, _)
CloseFenceFrom(s, p, c) ==
    IF p >= Len(s) THEN NoMatch
    ELSE IF CloseFenceAt(s, p, c) # NoMatch THEN CloseFenceAt(s, p, c)
    ELSE CloseFenceFrom(s, p + 1, c)

\* self._close_re.search(s)
CloseFenceSearch(s, c) == CloseFenceFrom(s, 0, c)

\* ------------------------------------------------------------------------
\* BlockBuffer.feed
\* ------------------------------------------------------------------------
BufState(p, ic, cc, out) == [pending |-> p, in_code |-> ic, close_ch |-> cc, out |-> out]

\* faulty variant: the prose in front of an opening fence is cut off without being returned
ProseBeforeFenceDropped(out, p, start) == out

\* lines 53-54: if start > 0: out.append(self.pending[:start])
ProseBeforeFence(out, p, start) ==
    IF start > 0 THEN Append(out, Take(p, start)) ELSE out

\* the while-loop of feed, one iteration per unfolding
RECURSIVE FeedLoop(_, _, _, _)
FeedLoop(p, ic, cc, out) ==
    IF ic THEN
        LET m == CloseFenceSearch(p, cc) IN
        IF m = NoMatch THEN BufState(p, ic, cc, out)
        ELSE FeedLoop(Drop(p, m.end), FALSE, NoFence, Append(out, Take(p, m.end)))
    ELSE
        LET para_idx == FindPara(p, 0)
            m_open == OpenFenceSearch(p)
        IN
        IF para_idx # -1 /\ (m_open = NoMatch \/ para_idx < m_open.start) THEN
            FeedLoop(Drop(p, para_idx + 2), ic, cc, Append(out, Take(p, para_idx + 2)))
        ELSE IF m_open # NoMatch THEN
            LET start == m_open.start
                out1 == ProseBeforeFence(out, p, start)
                p1 == IF start > 0 THEN Drop(p, start) ELSE p
                m1 == OpenFenceAt(p1, 0)
                fence == p1[1]
                m_close == CloseFenceSearch(Drop(p1, m1.end), fence)
            IN
            IF m_close # NoMatch THEN
                FeedLoop(Drop(p1, m1.end + m_close.end), FALSE, NoFence,
                         Append(out1, Take(p1, m1.end + m_close.end)))
            ELSE BufState(p1, TRUE, fence, out1)
        ELSE BufState(p, ic, cc, out)

\* feed(text): the state and the returned list
FeedResult(p, ic, cc, text) ==
    IF text = <<>> THEN BufState(p, ic, cc, <<>>)
    ELSE FeedLoop(p \o text, ic, cc, <<>>)

\* flush_remaining(): the returned value
FlushValue(p) == IF p = <<>> THEN NoneStr ELSE SomeStr(p)

\* ------------------------------------------------------------------------
\* Bounds and inputs of the segmenter
\* ------------------------------------------------------------------------
MaxFeeds == 5

MaxFlushes == 2

\* the texts a feed call may carry
FeedTexts ==
    { <<>>, <<BQ>>, <<BQ, BQ, BQ>>, <<TILDE, TILDE, TILDE>>, <<LF>>, <<"a">>, <<SPC>> }

BlockInit ==
    /\ pending = <<>>
    /\ in_code = FALSE
    /\ close_ch = NoFence
    /\ fed = <<>>
    /\ blocks = <<>>
    /\ last_out = <<>>
    /\ flushed = <<>>
    /\ nfeeds = 0

Feed(text) ==
    /\ flushed = <<>>
    /\ nfeeds < MaxFeeds
    /\ nfeeds' = nfeeds + 1
    /\ LET r == FeedResult(pending, in_code, close_ch, text) IN
        /\ pending' = r.pending
        /\ in_code' = r.in_code
        /\ close_ch' = r.close_ch
        /\ last_out' = r.out
        /\ blocks' = blocks \o r.out
    /\ fed' = fed \o text
    /\ UNCHANGED <<flushed, notB>>

\* faulty variant: flush_remaining leaves in_code and the closing pattern
FlushRemainingKeepsMode ==
    /\ Len(flushed) < MaxFlushes
    /\ flushed' = Append(flushed, FlushValue(pending))
    /\ IF pending = <<>>
       THEN UNCHANGED <<pending, in_code, close_ch>>
       ELSE /\ pending' = <<>>
            /\ UNCHANGED <<in_code, close_ch>>
    /\ UNCHANGED <<fed, blocks, last_out, nfeeds, notB>>

FlushRemaining ==
    /\ Len(flushed) < MaxFlushes
    /\ flushed' = Append(flushed, FlushValue(pending))
    /\ IF pending = <<>>
       THEN UNCHANGED <<pending, in_code, close_ch>>
       ELSE /\ pending' = <<>>
            /\ in_code' = FALSE
            /\ close_ch' = NoFence
    /\ UNCHANGED <<fed, blocks, last_out, nfeeds, notB>>

BlockNext ==
    \/ \E text \in FeedTexts : Feed(text)
    \/ FlushRemaining

\* feed texts with fences of two lengths: a fence of four and of three
\* backquotes, a fence of three tildes, an info string, a line feed, and
\* a whole opening fence line with an info string
FenceTexts ==
    { <<BQ, BQ, BQ, BQ>>, <<BQ, BQ, BQ>>, <<TILDE, TILDE, TILDE>>, <<"a">>, <<LF>>,
      <<BQ, BQ, BQ, "a", LF>> }

FencesNext ==
    \/ \E text \in FenceTexts : Feed(text)
    \/ FlushRemaining

\* ------------------------------------------------------------------------
\* MarkdownStream
\* ------------------------------------------------------------------------
MaxLines == 4

LineVals == {"x", "y"}

\* the line lists _render_md_lines may return (the renderer is the rich
\* library: any list of lines, also one that reflows or shrinks)
Renders == UNION { [1..k -> LineVals] : k \in 0..MaxLines }

\* line 174: if total > 3
StableThreshold == 3

\* line 175: max(0, total - 2)
LiveTailLines == 2

\* what the live region shows
Spinner == <<"spinner">>

Blank == <<>>

\* length of the longest common prefix of two line lists (lines 182-199)
RECURSIVE CommonPrefixLen(_, _)
CommonPrefixLen(a, b) ==
    IF a # <<>> /\ b # <<>> /\ Head(a) = Head(b)
    THEN 1 + CommonPrefixLen(Tail(a), Tail(b))
    ELSE 0

\* lines 174-177
TargetStable(total, final) ==
    IF total > StableThreshold
    THEN (IF final THEN total ELSE Max(0, total - LiveTailLines))
    ELSE (IF final THEN total ELSE 0)

\* faulty variant: the cap by lcp_prev of line 208 is missing
EffectiveStableNoTwoFrame(lines, final, prev, done) ==
    LET total == Len(lines)
        already == Len(done)
        common == CommonPrefixLen(done, lines)
    IN  IF common < already THEN common ELSE TargetStable(total, final)

\* faulty variant: the reflow guard of lines 209-211 is missing
EffectiveStableNoReflowGuard(lines, final, prev, done) ==
    IF final THEN Len(lines)
    ELSE Min(TargetStable(Len(lines), final), CommonPrefixLen(prev, lines))

\* lines 208-211
EffectiveStable(lines, final, prev, done) ==
    LET total == Len(lines)
        lcp_prev == CommonPrefixLen(prev, lines)
        already == Len(done)
        common == CommonPrefixLen(done, lines)
        stable == IF final THEN total ELSE Min(TargetStable(total, final), lcp_prev)
    IN  IF common < already THEN common ELSE stable

\* the fields of a MarkdownStream as one value
MsNow ==
    [ printed |-> printed, last_rendered |-> last_rendered, live |-> live,
      waiting_active |-> waiting_active, when_set |-> when_set,
      console_out |-> console_out, live_view |-> live_view,
      thinking_buffer |-> thinking_buffer, in_thinking_phase |-> in_thinking_phase,
      thinking_out |-> thinking_out, finalized |-> finalized ]

\* a new MarkdownStream (dataclass defaults, lines 48-60)
MsNew ==
    [ printed |-> <<>>, last_rendered |-> <<>>, live |-> FALSE,
      waiting_active |-> FALSE, when_set |-> FALSE,
      console_out |-> <<>>, live_view |-> Blank,
      thinking_buffer |-> <<>>, in_thinking_phase |-> FALSE,
      thinking_out |-> <<>>, finalized |-> FALSE ]

MsSet(ms) ==
    /\ printed' = ms.printed
    /\ last_rendered' = ms.last_rendered
    /\ live' = ms.live
    /\ waiting_active' = ms.waiting_active
    /\ when_set' = ms.when_set
    /\ console_out' = ms.console_out
    /\ live_view' = ms.live_view
    /\ thinking_buffer' = ms.thinking_buffer
    /\ in_thinking_phase' = ms.in_thinking_phase
    /\ thinking_out' = ms.thinking_out
    /\ finalized' = ms.finalized

\* _ensure_live(): a new Live starts with an empty region
MsEnsureLive(ms) ==
    IF ms.live THEN ms ELSE [ms EXCEPT !.live = TRUE, !.live_view = Blank]

\* faulty variant: stop() also forgets what was printed
MsStopForgetsPrinted(ms) ==
    IF ms.live THEN [ms EXCEPT !.live = FALSE, !.live_view = Blank, !.printed = <<>>] ELSE ms

\* stop()
MsStop(ms) ==
    IF ms.live THEN [ms EXCEPT !.live = FALSE, !.live_view = Blank] ELSE ms

\* start_waiting(message)
MsStartWaiting(ms) ==
    IF ms.waiting_active THEN ms
    ELSE [MsEnsureLive(ms) EXCEPT !.waiting_active = TRUE, !.live_view = Spinner]

\* stop_waiting()
MsStopWaiting(ms) ==
    IF ~ms.waiting_active THEN ms
    ELSE [ms EXCEPT !.waiting_active = FALSE,
                    !.live_view = IF ms.live THEN Blank ELSE ms.live_view,
                    !.when_set = FALSE]

\* faulty variant: printed is set to the stable lines also when no more
\* lines are needed (lines 224-229 without the test of need)
MsUpdateRewritesPrinted(ms0, lines, final, throttled) ==
    LET ms == MsEnsureLive(ms0) IN
    IF ~final /\ throttled /\ ms.when_set
    THEN ms
    ELSE
    LET total == Len(lines)
        already == Len(ms.printed)
        effective_stable == EffectiveStable(lines, final, ms.last_rendered, ms.printed)
        timed == [ms EXCEPT !.when_set = TRUE]
        ms1 == IF timed.waiting_active /\ total > 0 THEN MsStopWaiting(timed) ELSE timed
        ms2 == IF final \/ effective_stable > 0
               THEN [ms1 EXCEPT !.printed = Take(lines, effective_stable),
                                !.console_out =
                                    @ \o SubSeq(lines, already + 1, effective_stable)]
               ELSE ms1
        ms3 == [ms2 EXCEPT !.last_rendered = lines]
    IN
    IF ms1.waiting_active /\ total = 0 /\ ~final
    THEN ms1
    ELSE IF final
    THEN MsStop([ms3 EXCEPT !.finalized = TRUE])
    ELSE [ms3 EXCEPT !.live_view = Drop(lines, effective_stable)]

\* update(cumulative_text, final): lines is the render of cumulative_text,
\* throttled says that less than min_delay passed since the last frame
MsUpdate(ms0, lines, final, throttled) ==
    LET ms == MsEnsureLive(ms0) IN
    IF ~final /\ throttled /\ ms.when_set
    THEN ms     \* lines 161-163
    ELSE
    LET total == Len(lines)
        already == Len(ms.printed)
        effective_stable == EffectiveStable(lines, final, ms.last_rendered, ms.printed)
        timed == [ms EXCEPT !.when_set = TRUE]
        \* lines 214-215
        ms1 == IF timed.waiting_active /\ total > 0 THEN MsStopWaiting(timed) ELSE timed
        need == Max(0, effective_stable - already)
        prints == (final \/ effective_stable > 0) /\ need > 0
        \* lines 221-229
        ms2 == IF prints
               THEN [ms1 EXCEPT !.printed = Take(lines, effective_stable),
                                !.console_out =
                                    @ \o SubSeq(lines, already + 1, effective_stable)]
               ELSE ms1
        \* line 233
        ms3 == [ms2 EXCEPT !.last_rendered = lines]
    IN
    IF ms1.waiting_active /\ total = 0 /\ ~final
    THEN ms1    \* lines 218-219
    ELSE IF final
    THEN MsStop([ms3 EXCEPT !.finalized = TRUE])    \* lines 235-242
    ELSE [ms3 EXCEPT !.live_view = Drop(lines, effective_stable)]  \* lines 244-249

\* what the live region shows while thinking text streams
ThinkingView == <<"thinking">>

\* the header printed when the thinking phase starts (line 258)
ThinkingHeader == "*Thinking...*"

\* _stream_thinking()
MsStreamThinking(ms0, throttled) ==
    LET ms == MsEnsureLive(ms0) IN
    IF Concat(ms.thinking_buffer) = <<>> THEN ms
    ELSE IF throttled /\ ms.when_set THEN ms
    ELSE [ms EXCEPT !.when_set = TRUE, !.live_view = ThinkingView]

\* add_thinking(text)
MsAddThinking(ms, text, throttled) ==
    LET ms1 == IF ~ms.in_thinking_phase
               THEN [MsEnsureLive(ms) EXCEPT
                        !.in_thinking_phase = TRUE,
                        !.thinking_buffer = <<>>,
                        !.console_out = Append(@, ThinkingHeader)]
               ELSE ms
    IN  MsStreamThinking([ms1 EXCEPT !.thinking_buffer = Append(@, text)], throttled)

\* _finalize_thinking()
MsFinalizeThinking(ms) ==
    IF ms.in_thinking_phase /\ ms.live
    THEN [ms EXCEPT
            !.thinking_out = IF Concat(ms.thinking_buffer) # <<>>
                             THEN Append(@, Concat(ms.thinking_buffer)) ELSE @,
            !.console_out = Append(@, ""),
            !.live_view = Blank]
    ELSE ms

\* faulty variant: the thinking phase ends without _finalize_thinking()
MsAddResponseNoFinalize(ms, lines, throttled) ==
    MsUpdate([ms EXCEPT !.in_thinking_phase = FALSE], lines, FALSE, throttled)

\* add_response(text): lines is the render of the cumulative response
MsAddResponse(ms, lines, throttled) ==
    LET ms1 == IF ms.in_thinking_phase
               THEN [MsFinalizeThinking(ms) EXCEPT !.in_thinking_phase = FALSE]
               ELSE ms
    IN  MsUpdate(ms1, lines, FALSE, throttled)

MdInit ==
    /\ printed = MsNew.printed
    /\ last_rendered = MsNew.last_rendered
    /\ live = MsNew.live
    /\ waiting_active = MsNew.waiting_active
    /\ when_set = MsNew.when_set
    /\ console_out = MsNew.console_out
    /\ live_view = MsNew.live_view
    /\ thinking_buffer = MsNew.thinking_buffer
    /\ in_thinking_phase = MsNew.in_thinking_phase
    /\ thinking_out = MsNew.thinking_out
    /\ finalized = MsNew.finalized

StartWaiting == MsSet(MsStartWaiting(MsNow)) /\ UNCHANGED notM

StopWaiting == MsSet(MsStopWaiting(MsNow)) /\ UNCHANGED notM

Update(lines, final, throttled) ==
    MsSet(MsUpdate(MsNow, lines, final, throttled)) /\ UNCHANGED notM

MdNext ==
    \/ \E lines \in Renders, final \in BOOLEAN :
         \E throttled \in (IF final THEN {FALSE} ELSE BOOLEAN) :
            Update(lines, final, throttled)
    \/ StartWaiting
    \/ StopWaiting

\* ------------------------------------------------------------------------
\* Strings, numbers and JSON texts as the client and the mappers use them
\* ------------------------------------------------------------------------
Digits == <<"0", "1", "2", "3", "4", "5", "6", "7", "8", "9">>

DigitSet == {Digits[i] : i \in 1..10}

DigitVal(c) == (CHOOSE i \in 1..10 : Digits[i] = c) - 1

\* str(n) for n >= 0
RECURSIVE ToStr(_)
ToStr(n) == IF n < 10 THEN <<Digits[n + 1]>> ELSE Append(ToStr(n \div 10), Digits[(n % 10) + 1])

\* str.isdigit()
IsDigitStr(s) == s # <<>> /\ \A i \in 1..Len(s) : s[i] \in DigitSet

\* int(s) for a string of digits
RECURSIVE ToInt(_)
ToInt(s) == IF s = <<>> THEN 0 ELSE 10 * ToInt(Take(s, Len(s) - 1)) + DigitVal(s[Len(s)])

\* str.lstrip(c)
RECURSIVE LStrip(_, _)
LStrip(s, c) == IF s # <<>> /\ Head(s) = c THEN LStrip(Tail(s), c) ELSE s

\* str.split(sep) for a one-character separator
RECURSIVE SplitFrom(_, _, _)
SplitFrom(s, sep, cur) ==
    IF s = <<>> THEN <<cur>>
    ELSE IF Head(s) = sep THEN <<cur>> \o SplitFrom(Tail(s), sep, <<>>)
    ELSE SplitFrom(Tail(s), sep, Append(cur, Head(s)))

Split(s, sep) == SplitFrom(s, sep, <<>>)

\* "|".join(parts)
RECURSIVE JoinBar(_)
JoinBar(parts) ==
    IF Len(parts) = 1 THEN parts[1]
    ELSE parts[1] \o <<"|">> \o JoinBar(Tail(parts))

\* amounts of money are counted in millionths of a dollar
MicroPerDollar == 1000000

\* the six digits after the decimal point
RECURSIVE PadDigits(_, _)
PadDigits(n, width) ==
    IF width = 0 THEN <<>> ELSE Append(PadDigits(n \div 10, width - 1), Digits[(n % 10) + 1])

CostDecimals == 6

\* f"{total_cost:.6f}"
FormatCost(micro) ==
    ToStr(micro \div MicroPerDollar) \o <<".">> \o PadDigits(micro % MicroPerDollar, CostDecimals)

\* float(s) accepts it
FloatOk(s) ==
    LET ps == Split(s, ".") IN
    /\ Len(ps) = 2
    /\ IsDigitStr(ps[1])
    /\ Len(ps[2]) = CostDecimals
    /\ IsDigitStr(ps[2])

\* float(s), in millionths
ParseFloat(s) ==
    LET ps == Split(s, ".") IN ToInt(ps[1]) * MicroPerDollar + ToInt(ps[2])

\* len(text.split()): number of whitespace-separated words
RECURSIVE WordCount(_, _)
WordCount(s, inword) ==
    IF s = <<>> THEN 0
    ELSE IF Head(s) \in Whitespace THEN WordCount(Tail(s), FALSE)
    ELSE (IF inword THEN 0 ELSE 1) + WordCount(Tail(s), TRUE)

\* json.dumps({"id": id, "name": name})
ToolJson(id, name) == <<"{", id, name, "}">>

\* json.loads of a tool_start value succeeds
ToolJsonOk(v) == Len(v) = 4 /\ v[1] = "{" /\ v[4] = "}"

NoTool == [some |-> FALSE, id |-> "", name |-> ""]

\* json.loads of a tool_start value
ToolJsonLoads(v) == [some |-> TRUE, id |-> v[2], name |-> v[3]]

\* tool arguments are JSON objects written "{", keys, "}"; the parsed
\* value is the set of keys
ArgKeys == {"x", "y"}

\* json.loads(tool_input_buffer) succeeds
ArgsJsonOk(s) ==
    /\ Len(s) >= 2
    /\ s[1] = "{"
    /\ s[Len(s)] = "}"
    /\ \A i \in 2..(Len(s) - 1) : s[i] \in ArgKeys

\* json.loads(tool_input_buffer) if tool_input_buffer else {}
ArgsJsonLoads(s) == IF s = <<>> THEN {} ELSE {s[i] : i \in 2..(Len(s) - 1)}

\* ToolExecutor.execute_tool(name, input)["content"]
ExecContent(name, input) == [tool |-> name, input |-> input]

\* ------------------------------------------------------------------------
\* Events (kind, value); the value None is the empty string
\* ------------------------------------------------------------------------
Ev(kind, value) == [kind |-> kind, value |-> value]

NoError == "None"

NoResult ==
    [ some |-> FALSE, text |-> <<>>, tokens |-> 0, cost |-> 0, tool_calls |-> <<>>,
      model_name |-> <<>>, aborted |-> FALSE, error |-> NoError ]

\* StreamResult(text="".join(text_buffer), ...)
StreamResult(st, tokens, cost, aborted, error) ==
    [ some |-> TRUE, text |-> Concat(st.text_buffer), tokens |-> tokens, cost |-> cost,
      tool_calls |-> st.tool_calls_made, model_name |-> st.model_name,
      aborted |-> aborted, error |-> error ]

\* the locals of the running call as one value
LocNow ==
    [ text_buffer |-> text_buffer, model_name |-> model_name,
      tool_calls_made |-> tool_calls_made, current_tool |-> current_tool,
      tool_input_buffer |-> tool_input_buffer, executed |-> executed,
      tool_errors |-> tool_errors, result |-> result ]

LocSet(st) ==
    /\ text_buffer' = st.text_buffer
    /\ model_name' = st.model_name
    /\ tool_calls_made' = st.tool_calls_made
    /\ current_tool' = st.current_tool
    /\ tool_input_buffer' = st.tool_input_buffer
    /\ executed' = st.executed
    /\ tool_errors' = st.tool_errors
    /\ result' = st.result

IsLive == method = "stream_with_live_rendering"

\* faulty variant: tool_start keeps the argument buffer of the previous call
ToolStartKeepsBuffer(st, e) ==
    IF has_executor /\ e.value # <<>> /\ ToolJsonOk(e.value)
    THEN [st EXCEPT !.current_tool = ToolJsonLoads(e.value)]
    ELSE st

\* tool_start (lines 126-133, 299-307)
ToolStart(st, e) ==
    IF has_executor /\ e.value # <<>> /\ ToolJsonOk(e.value)
    THEN [st EXCEPT !.current_tool = ToolJsonLoads(e.value), !.tool_input_buffer = <<>>]
    ELSE st

\* faulty variant: the JSONDecodeError of the arguments is not caught at
\* tool_ready and ends the call through the outer except clause
ToolReadyDecodeErrorFatal(st, at, livemode) ==
    IF has_executor /\ st.current_tool.some
    THEN LET closed == [st EXCEPT !.current_tool = NoTool,
                                  !.tool_input_buffer = IF livemode THEN <<>> ELSE @]
         IN  IF st.tool_input_buffer = <<>> \/ ArgsJsonOk(st.tool_input_buffer)
             THEN [closed EXCEPT
                     !.executed = Append(@, [name |-> st.current_tool.name,
                                             input |-> ArgsJsonLoads(st.tool_input_buffer),
                                             at |-> at]),
                     !.tool_calls_made =
                         Append(@, [id |-> st.current_tool.id, name |-> st.current_tool.name,
                                    input |-> ArgsJsonLoads(st.tool_input_buffer),
                                    result |-> ExecContent(st.current_tool.name,
                                                           ArgsJsonLoads(st.tool_input_buffer))])]
             ELSE [closed EXCEPT
                     !.tool_errors = Append(@, [at |-> at, reported |-> livemode]),
                     !.result = [ some |-> TRUE, text |-> Concat(st.text_buffer),
                                  tokens |-> 0, cost |-> 0,
                                  tool_calls |-> st.tool_calls_made,
                                  model_name |-> st.model_name, aborted |-> FALSE,
                                  error |-> "Unexpected error" ]]
    ELSE st

\* faulty variant: tool_ready runs the executor without a test of
\* current_tool
ToolReadyWithoutOpenCall(st, at, livemode) ==
    IF has_executor
    THEN LET closed == [st EXCEPT !.current_tool = NoTool,
                                  !.tool_input_buffer = IF livemode THEN <<>> ELSE @]
         IN  IF st.tool_input_buffer = <<>> \/ ArgsJsonOk(st.tool_input_buffer)
             THEN LET tool_input == ArgsJsonLoads(st.tool_input_buffer)
                      tool_name == st.current_tool.name
                      tool_id == st.current_tool.id
                  IN  [closed EXCEPT
                         !.executed = Append(@, [name |-> tool_name, input |-> tool_input,
                                                 at |-> at]),
                         !.tool_calls_made =
                             Append(@, [id |-> tool_id, name |-> tool_name,
                                        input |-> tool_input,
                                        result |-> ExecContent(tool_name, tool_input)])]
             ELSE [closed EXCEPT !.tool_errors =
                      Append(@, [at |-> at, reported |-> livemode])]
    ELSE st

\* tool_ready (lines 139-163, 313-344); at is the position of the event
ToolReady(st, at, livemode) ==
    IF has_executor /\ st.current_tool.some
    THEN LET closed == [st EXCEPT !.current_tool = NoTool,
                                  !.tool_input_buffer = IF livemode THEN <<>> ELSE @]
         IN  IF st.tool_input_buffer = <<>> \/ ArgsJsonOk(st.tool_input_buffer)
             THEN LET tool_input == ArgsJsonLoads(st.tool_input_buffer)
                      tool_name == st.current_tool.name
                      tool_id == st.current_tool.id
                  IN  [closed EXCEPT
                         !.executed = Append(@, [name |-> tool_name, input |-> tool_input,
                                                 at |-> at]),
                         !.tool_calls_made =
                             Append(@, [id |-> tool_id, name |-> tool_name,
                                        input |-> tool_input,
                                        result |-> ExecContent(tool_name, tool_input)])]
             ELSE \* json.JSONDecodeError (lines 159-161, 340-341): skipped in
                  \* send_message, printed as an error in the live method
                  [closed EXCEPT !.tool_errors =
                      Append(@, [at |-> at, reported |-> livemode])]
    ELSE st

\* the error texts of the three handlers of send_message (lines 194-220)
\* and of the handler of stream_with_live_rendering (lines 381-392)
ErrorText(kind) ==
    IF IsLive THEN kind
    ELSE CASE kind \in {"ReadTimeout", "ConnectTimeout"} -> "Request timed out"
           [] kind \in {"ConnectionError", "HTTPError"} -> "Network error"
           [] OTHER -> "Unexpected error"

\* faulty variant: the ~ of an estimate is left on the total
TokensResultKeepsTilde(st, value, aborted) ==
    LET parts == Split(value, "|") IN
    IF value # <<>> /\ Len(parts) >= 2 /\ Len(parts) >= 4
    THEN LET total_str == parts[1]
             total_tokens == IF IsDigitStr(total_str) THEN ToInt(total_str) ELSE 0
         IN  IF parts[4] = <<>> THEN StreamResult(st, total_tokens, 0, aborted, NoError)
             ELSE IF FloatOk(parts[4])
             THEN StreamResult(st, total_tokens, ParseFloat(parts[4]), aborted, NoError)
             ELSE StreamResult(st, 0, 0, aborted, ErrorText("ValueError"))
    ELSE StreamResult(st, IF IsDigitStr(value) THEN ToInt(value) ELSE 0, 0, aborted, NoError)

\* tokens (lines 165-189, 346-376): the StreamResult, or the exception of float()
TokensResult(st, value, aborted) ==
    LET parts == Split(value, "|") IN
    IF value # <<>> /\ Len(parts) >= 2 /\ Len(parts) >= 4
    THEN LET total_str == LStrip(parts[1], "~")
             total_tokens == IF IsDigitStr(total_str) THEN ToInt(total_str) ELSE 0
         IN  IF parts[4] = <<>> THEN StreamResult(st, total_tokens, 0, aborted, NoError)
             ELSE IF FloatOk(parts[4])
             THEN StreamResult(st, total_tokens, ParseFloat(parts[4]), aborted, NoError)
             ELSE StreamResult(st, 0, 0, aborted, ErrorText("ValueError"))
    ELSE StreamResult(st, IF IsDigitStr(value) THEN ToInt(value) ELSE 0, 0, aborted, NoError)

\* faulty variant: the abort check comes after the event has been handled
\* (the text of the iteration that saw the flag is kept)
HandleEventBeforeAbortCheck(st, e, at) ==
    IF e.kind = "text" THEN [st EXCEPT !.text_buffer = Append(@, e.value)]
    ELSE IF e.kind = "tool_ready" THEN ToolReady(st, at, IsLive)
    ELSE st

\* what an iteration does with its event when the abort flag is set:
\* nothing (lines 106-114, 278-280)
HandleEventOnAbort(st, e, at) == st

\* the body of the for-event loop below the abort check
HandleEvent(st, e, at) ==
    CASE e.kind = "model" ->
            [st EXCEPT !.model_name = IF e.value # <<>> THEN e.value ELSE @]
      [] e.kind = "text" ->
            [st EXCEPT !.text_buffer = Append(@, e.value)]
      [] e.kind = "tool_start" -> ToolStart(st, e)
      [] e.kind = "tool_input_delta" ->
            [st EXCEPT !.tool_input_buffer = @ \o e.value]
      [] e.kind = "tool_ready" -> ToolReady(st, at, IsLive)
      [] e.kind = "tokens" ->
            [st EXCEPT !.result = TokensResult(st, e.value, IF IsLive THEN ABORT ELSE FALSE)]
      [] e.kind = "done" ->
            [st EXCEPT !.result = StreamResult(st, 0, 0, IF IsLive THEN ABORT ELSE FALSE,
                                               NoError)]
      [] OTHER -> st

\* faulty variant: only the requests exceptions are caught, any other exception escapes
ErrorResultRequestsOnly(st, kind) ==
    IF kind \in {"ReadTimeout", "ConnectTimeout", "ConnectionError", "HTTPError"}
    THEN StreamResult(st, 0, 0, IF IsLive THEN ABORT ELSE FALSE, ErrorText(kind))
    ELSE NoResult

\* the StreamResult built by the except clauses
ErrorResult(st, kind) ==
    StreamResult(st, 0, 0, IF IsLive THEN ABORT ELSE FALSE, ErrorText(kind))

\* the renders of the cumulative response text during a call
ClientRenders == { <<>>, <<"x">>, <<"x", "y">> }

\* the ms.* calls stream_with_live_rendering makes for an event
\* faulty variant: a tool_start event leaves the waiting indicator on
LiveRenderToolStartKeepsWaiting(ms, e, lines, throttled) ==
    CASE e.kind = "model" -> MsStopWaiting(ms)
      [] e.kind = "thinking" -> MsAddThinking(MsStopWaiting(ms), e.value, throttled)
      [] e.kind = "text" -> MsAddResponse(MsStopWaiting(ms), lines, throttled)
      [] OTHER -> ms

LiveRender(ms, e, lines, throttled) ==
    CASE e.kind = "model" -> MsStopWaiting(ms)
      [] e.kind = "thinking" -> MsAddThinking(MsStopWaiting(ms), e.value, throttled)
      [] e.kind = "text" -> MsAddResponse(MsStopWaiting(ms), lines, throttled)
      [] e.kind = "tool_start" -> MsStopWaiting(ms)
      [] OTHER -> ms

\* ------------------------------------------------------------------------
\* StreamingClient: the calls
\* ------------------------------------------------------------------------
Methods == {"send_message", "stream_with_live_rendering"}

ClientInit(executors) ==
    /\ method = "none"
    /\ has_executor \in executors
    /\ pc = "idle"
    /\ text_buffer = <<>>
    /\ model_name = <<>>
    /\ tool_calls_made = <<>>
    /\ current_tool = NoTool
    /\ tool_input_buffer = <<>>
    /\ self_abort = FALSE
    /\ ABORT = FALSE
    /\ result = NoResult
    /\ seen = <<>>
    /\ nproc = 0
    /\ executed = <<>>
    /\ failed = "none"
    /\ final_updates = <<>>
    /\ tool_errors = <<>>
    /\ cancel_pending = FALSE

\* entering send_message (lines 91-101) or stream_with_live_rendering
\* (lines 253-273)
Call(m) ==
    /\ pc = "idle"
    /\ method' = m
    /\ pc' = "loop"
    /\ IF m = "send_message"
       THEN /\ self_abort' = FALSE
            /\ UNCHANGED <<ABORT, mvars>>
       ELSE /\ ABORT' = FALSE
            /\ MsSet(MsStartWaiting(MsNew))
            /\ UNCHANGED self_abort
    /\ UNCHANGED <<has_executor, cancel_pending, tool_errors, text_buffer, model_name, tool_calls_made, current_tool,
                   tool_input_buffer, result, seen, nproc, executed, failed, final_updates,
                   bvars, qvars, svars, pvars>>

\* StreamingClient.abort(), called from outside the loop
Abort ==
    /\ pc = "loop"
    /\ ~self_abort
    /\ self_abort' = TRUE
    /\ UNCHANGED <<method, has_executor, cancel_pending, pc, text_buffer, model_name, tool_calls_made,
                   current_tool, tool_input_buffer, ABORT, result, seen, nproc, executed, tool_errors,
                   failed, final_updates, bvars, qvars, svars, mvars, pvars>>

\* the final ms.update calls on the way out of stream_with_live_rendering:
\* n of them, all rendering the same text to the same lines
RECURSIVE FinalUpdates(_, _, _)
\* faulty variant: the finally clause does not update the stream
FinalCallsNoFinally(way) == IF way = "tokens" THEN 1 ELSE 0

\* the number of ms.update(text, final=True) calls on a way out of
\* stream_with_live_rendering: one in the tokens branch before its return
\* (lines 363, 375) and one in the finally clause on every way (line 395)
FinalCalls(way) == IF way = "tokens" THEN 2 ELSE 1

\* the texts passed by n final updates
FinalTexts(text, n) == [i \in 1..n |-> text]

FinalUpdates(ms, lines, n) ==
    IF n = 0 THEN ms ELSE FinalUpdates(MsUpdate(ms, lines, TRUE, FALSE), lines, n - 1)

\* one iteration of the for-event loop of send_message with event e
SendMessageIter(e) ==
    /\ method = "send_message"
    /\ pc = "loop"
    /\ seen' = Append(seen, e)
    /\ IF self_abort
       THEN LET st == HandleEventOnAbort(LocNow, e, Len(seen) + 1) IN
            /\ LocSet([st EXCEPT !.result = StreamResult(st, 0, 0, TRUE, NoError)])
            /\ pc' = "returned"
            /\ UNCHANGED nproc
       ELSE LET st == HandleEvent(LocNow, e, Len(seen) + 1) IN
            /\ LocSet(st)
            /\ pc' = IF st.result.some THEN "returned" ELSE "loop"
            /\ nproc' = nproc + 1
    /\ UNCHANGED <<method, has_executor, cancel_pending, self_abort, ABORT, failed, final_updates,
                   bvars, qvars, svars, mvars>>

\* one iteration of the for-event loop of stream_with_live_rendering with
\* event e; esc is the answer of _esc_pressed, lines the render of the
\* response text, throttled the answer of the frame-rate check
LiveIter(e, esc, lines, throttled) ==
    /\ method = "stream_with_live_rendering"
    /\ pc = "loop"
    /\ seen' = Append(seen, e)
    \* _esc_pressed(0.0) reads the key that waits in stdin, unless _ABORT
    \* is already set
    /\ cancel_pending' = IF ABORT THEN cancel_pending ELSE FALSE
    /\ IF ABORT \/ esc \/ cancel_pending
       THEN LET st == HandleEventOnAbort(LocNow, e, Len(seen) + 1) IN
            /\ ABORT' = TRUE
            /\ LocSet([st EXCEPT !.result = StreamResult(st, 0, 0, TRUE, NoError)])
            /\ pc' = "returned"
            /\ MsSet(FinalUpdates(MsNow, lines, FinalCalls("abort")))
            /\ final_updates' = final_updates \o FinalTexts(Concat(st.text_buffer), FinalCalls("abort"))
            /\ UNCHANGED nproc
       ELSE LET st == HandleEvent(LocNow, e, Len(seen) + 1)
                ms == LiveRender(MsNow, e, lines, throttled)
                \* float() raised: the except clause runs ms.stop_waiting()
                raised == st.result.some /\ st.result.error # NoError
                nfinal == IF ~st.result.some THEN 0
                          ELSE FinalCalls(IF raised THEN "exception" ELSE e.kind)
            IN
            /\ LocSet(st)
            /\ pc' = IF st.result.some THEN "returned" ELSE "loop"
            /\ nproc' = nproc + 1
            /\ MsSet(FinalUpdates(IF raised THEN MsStopWaiting(ms) ELSE ms, lines, nfinal))
            /\ final_updates' = final_updates \o FinalTexts(Concat(st.text_buffer), nfinal)
            /\ UNCHANGED ABORT
    /\ UNCHANGED <<method, has_executor, self_abort, failed, bvars, qvars, svars>>

\* the transport raises while the loop waits for the next event
TransportKinds == {"ReadTimeout", "ConnectTimeout", "ConnectionError", "HTTPError", "Exception"}

TransportRaises(kind, lines) ==
    /\ pc = "loop"
    /\ failed' = kind
    /\ LET r == ErrorResult(LocNow, kind) IN
       /\ result' = r
       /\ pc' = IF r.some THEN "returned" ELSE "raised"
    /\ IF IsLive
       THEN /\ MsSet(FinalUpdates(MsStopWaiting(MsNow), lines, FinalCalls("exception")))
            /\ final_updates' = final_updates
                                 \o FinalTexts(Concat(text_buffer), FinalCalls("exception"))
       ELSE UNCHANGED <<mvars, final_updates>>
    /\ UNCHANGED <<method, has_executor, cancel_pending, text_buffer, model_name, tool_calls_made,
                   current_tool, tool_input_buffer, self_abort, ABORT, seen, nproc,
                   executed, tool_errors, bvars, qvars, svars>>

\* the event stream is exhausted: the loop ends and the final result is returned
\* (lines 222-229, 393-409)
LoopEnds(lines) ==
    /\ pc = "loop"
    /\ result' = StreamResult(LocNow, 0, 0, IF IsLive THEN ABORT ELSE FALSE, NoError)
    /\ pc' = "returned"
    /\ IF IsLive
       THEN /\ MsSet(FinalUpdates(MsNow, lines, FinalCalls("end")))
            /\ final_updates' = final_updates
                                 \o FinalTexts(Concat(text_buffer), FinalCalls("end"))
       ELSE UNCHANGED <<mvars, final_updates>>
    /\ UNCHANGED <<method, has_executor, cancel_pending, text_buffer, model_name, tool_calls_made,
                   current_tool, tool_input_buffer, self_abort, ABORT, seen, nproc,
                   executed, tool_errors, failed, bvars, qvars, svars>>

\* ------------------------------------------------------------------------
\* Payload lines.  A line is "[DONE]", a line that is not JSON, or a JSON
\* object; absent keys hold the default the mapper's .get() supplies.
\* ------------------------------------------------------------------------
NoUsage ==
    [ has |-> FALSE, inputTokenCount |-> 0, outputTokenCount |-> 0, input_tokens |-> 0,
      output_tokens |-> 0, total_tokens |-> 0, prompt_tokens |-> 0,
      completion_tokens |-> 0 ]

\* {"input_tokens": i, "output_tokens": o}
AnthropicUsage(i, o) == [NoUsage EXCEPT !.has = TRUE, !.input_tokens = i, !.output_tokens = o]

\* {"inputTokenCount": i, "outputTokenCount": o}
BedrockMetrics(i, o) ==
    [NoUsage EXCEPT !.has = TRUE, !.inputTokenCount = i, !.outputTokenCount = o]

\* {"total_tokens": t, "prompt_tokens": i, "completion_tokens": o}
OpenAIUsage(t, i, o) ==
    [NoUsage EXCEPT !.has = TRUE, !.total_tokens = t, !.prompt_tokens = i,
                    !.completion_tokens = o]

Frame ==
    [ type |-> "", model |-> <<>>, block |-> "", id |-> "", name |-> "", delta |-> "",
      text |-> <<>>, metrics |-> NoUsage, usage |-> NoUsage, choices |-> <<>> ]

DoneLine == [Frame EXCEPT !.type = "[DONE]"]

BadJsonLine == [Frame EXCEPT !.type = "not json"]

\* a JSON object of a type bedrock.map_events has no branch for, such as
\* {"type": "ping"}
UnknownFrame == [Frame EXCEPT !.type = "ping"]

MessageStart(m) == [Frame EXCEPT !.type = "message_start", !.model = m]

ToolUseStart(id, name) ==
    [Frame EXCEPT !.type = "content_block_start", !.block = "tool_use", !.id = id,
                  !.name = name]

TextBlockStart == [Frame EXCEPT !.type = "content_block_start", !.block = "text"]

BlockDelta(dtype, text) ==
    [Frame EXCEPT !.type = "content_block_delta", !.delta = dtype, !.text = text]

BlockStop == [Frame EXCEPT !.type = "content_block_stop"]

MessageStop(metrics, usage) ==
    [Frame EXCEPT !.type = "message_stop", !.metrics = metrics, !.usage = usage]

\* an Azure chunk; a choice is [content, tool_calls, finish_reason]
Chunk(model, choices, usage) ==
    [Frame EXCEPT !.type = "chunk", !.model = model, !.choices = choices, !.usage = usage]

NoFinish == "null"

Choice(content, tool_calls, finish_reason) ==
    [content |-> content, tool_calls |-> tool_calls, finish_reason |-> finish_reason]

ToolCallDelta(index, id, name, arguments) ==
    [index |-> index, id |-> id, name |-> name, arguments |-> arguments]

\* ------------------------------------------------------------------------
\* providers/bedrock.py map_events
\* ------------------------------------------------------------------------
\* Claude 3.5 Sonnet pricing, dollars per million tokens (lines 143-144)
BedrockInputPrice == 3

BedrockOutputPrice == 15

\* faulty variant: the input count is written first, where the client reads the total
TokenInfoInputFirst(total, input, output, micro) ==
    JoinBar(<<ToStr(input), ToStr(total), ToStr(output), FormatCost(micro)>>)

\* "tokens|input_tokens|output_tokens|cost" (lines 148, 266)
TokenInfo(total, input, output, micro) ==
    JoinBar(<<ToStr(total), ToStr(input), ToStr(output), FormatCost(micro)>>)

\* the events of a message_stop frame (lines 134-151)
BedrockMessageStop(f) ==
    LET usage == IF f.metrics.has THEN f.metrics ELSE f.usage
        input_tokens == IF usage.inputTokenCount # 0 THEN usage.inputTokenCount
                        ELSE usage.input_tokens
        output_tokens == IF usage.outputTokenCount # 0 THEN usage.outputTokenCount
                         ELSE usage.output_tokens
        total_tokens == input_tokens + output_tokens
    IN  (IF usage.has /\ total_tokens > 0
         THEN <<Ev("tokens", TokenInfo(total_tokens, input_tokens, output_tokens,
                                       input_tokens * BedrockInputPrice
                                       + output_tokens * BedrockOutputPrice))>>
         ELSE <<>>)
        \o <<Ev("done", <<>>)>>

\* one pass of the for-data loop: the events yielded and whether the
\* generator ends
BedrockStep(f) ==
    CASE f.type = "[DONE]" -> [out |-> <<Ev("done", <<>>)>>, stop |-> TRUE]
      [] f.type = "not json" -> [out |-> <<>>, stop |-> FALSE]
      [] f.type = "message_start" ->
            [out |-> IF f.model # <<>> THEN <<Ev("model", f.model)>> ELSE <<>>,
             stop |-> FALSE]
      [] f.type = "content_block_start" ->
            [out |-> IF f.block = "tool_use"
                     THEN <<Ev("tool_start", ToolJson(f.id, f.name))>> ELSE <<>>,
             stop |-> FALSE]
      [] f.type = "content_block_delta" ->
            [out |-> IF f.text = <<>> THEN <<>>
                     ELSE IF f.delta = "thinking_delta" THEN <<Ev("thinking", f.text)>>
                     ELSE IF f.delta = "text_delta" THEN <<Ev("text", f.text)>>
                     ELSE IF f.delta = "input_json_delta"
                     THEN <<Ev("tool_input_delta", f.text)>>
                     ELSE <<>>,
             stop |-> FALSE]
      [] f.type = "content_block_stop" ->
            [out |-> <<Ev("tool_ready", <<>>)>>, stop |-> FALSE]
      [] f.type = "message_stop" -> [out |-> BedrockMessageStop(f), stop |-> TRUE]
      [] OTHER -> [out |-> <<>>, stop |-> FALSE]

\* ------------------------------------------------------------------------
\* providers/azure.py map_events
\* ------------------------------------------------------------------------
\* GPT-5 pricing in hundred-thousandths of a dollar per 1K tokens
\* (lines 261-262: 0.00091 and 0.00677 dollars)
AzureInputPrice == 91

AzureOutputPrice == 677

\* line 292: estimated_input_tokens = 10
EstimatedInputTokens == 10

\* line 291: words * 1.3, in tenths
EstimateTenthsPerWord == 13

\* the locals of the generator as one value
MapNow ==
    [ sent_model |-> sent_model, current_tool_calls |-> current_tool_calls,
      accumulated_text |-> accumulated_text, has_finished |-> has_finished ]

MapNew ==
    [ sent_model |-> FALSE, current_tool_calls |-> <<>>, accumulated_text |-> <<>>,
      has_finished |-> FALSE ]

\* the exact tokens event (lines 256-267); the cost is rounded to six decimals
AzureTokens(usage) ==
    Ev("tokens", TokenInfo(usage.total_tokens, usage.prompt_tokens, usage.completion_tokens,
                           (usage.prompt_tokens * AzureInputPrice
                            + usage.completion_tokens * AzureOutputPrice + 50) \div 100))

\* the estimated tokens event (lines 290-300, 307-317)
AzureEstimate(text) ==
    LET words == WordCount(text, FALSE)
        out_tenths == Max(10, words * EstimateTenthsPerWord)
        total == (EstimatedInputTokens * 10 + out_tenths) \div 10
        micro == (EstimatedInputTokens * AzureInputPrice * 10
                  + out_tenths * AzureOutputPrice + 500) \div 1000
    IN  Ev("tokens", JoinBar(<< <<"~">> \o ToStr(total),
                                <<"~">> \o ToStr(EstimatedInputTokens),
                                <<"~">> \o ToStr(out_tenths \div 10),
                                FormatCost(micro) >>))

\* lines 218-242: the tool_calls of one delta
RECURSIVE AzureToolCalls(_, _, _)
\* faulty variant: arguments are emitted also for an index that was never
\* started
AzureToolCallsDeltaUnopened(calls, tcs, out) ==
    IF tcs = <<>> THEN [calls |-> calls, out |-> out]
    ELSE
    LET tc == Head(tcs)
        opens == tc.index \notin DOMAIN calls /\ tc.id # "" /\ tc.name # ""
        calls1 == IF opens
                  THEN [i \in DOMAIN calls \cup {tc.index} |->
                          IF i = tc.index
                          THEN [id |-> tc.id, name |-> tc.name, arguments |-> <<>>]
                          ELSE calls[i]]
                  ELSE calls
        out1 == IF opens THEN Append(out, Ev("tool_start", ToolJson(tc.id, tc.name)))
                ELSE out
        grows == tc.arguments # <<>>
        calls2 == IF grows /\ tc.index \in DOMAIN calls1
                  THEN [calls1 EXCEPT ![tc.index].arguments = @ \o tc.arguments]
                  ELSE calls1
        out2 == IF grows THEN Append(out1, Ev("tool_input_delta", tc.arguments)) ELSE out1
    IN  AzureToolCalls(calls2, Tail(tcs), out2)

AzureToolCalls(calls, tcs, out) ==
    IF tcs = <<>> THEN [calls |-> calls, out |-> out]
    ELSE
    LET tc == Head(tcs)
        opens == tc.index \notin DOMAIN calls /\ tc.id # "" /\ tc.name # ""
        calls1 == IF opens
                  THEN [i \in DOMAIN calls \cup {tc.index} |->
                          IF i = tc.index
                          THEN [id |-> tc.id, name |-> tc.name, arguments |-> <<>>]
                          ELSE calls[i]]
                  ELSE calls
        out1 == IF opens THEN Append(out, Ev("tool_start", ToolJson(tc.id, tc.name)))
                ELSE out
        grows == tc.arguments # <<>> /\ tc.index \in DOMAIN calls1
        calls2 == IF grows
                  THEN [calls1 EXCEPT ![tc.index].arguments = @ \o tc.arguments]
                  ELSE calls1
        out2 == IF grows THEN Append(out1, Ev("tool_input_delta", tc.arguments)) ELSE out1
    IN  AzureToolCalls(calls2, Tail(tcs), out2)

\* lines 208-242: the first loop over choices
RECURSIVE AzureChoices(_, _, _)
AzureChoices(st, choices, out) ==
    IF choices = <<>> THEN [st |-> st, out |-> out]
    ELSE
    LET ch == Head(choices)
        has_text == ch.content # <<>>
        st1 == IF has_text THEN [st EXCEPT !.accumulated_text = @ \o ch.content] ELSE st
        out1 == IF has_text THEN Append(out, Ev("text", ch.content)) ELSE out
        t == AzureToolCalls(st1.current_tool_calls, ch.tool_calls, out1)
    IN  AzureChoices([st1 EXCEPT !.current_tool_calls = t.calls], Tail(choices), t.out)

\* a tool_ready for every open call (lines 248-249)
RECURSIVE Repeat(_, _)
Repeat(x, n) == IF n = 0 THEN <<>> ELSE <<x>> \o Repeat(x, n - 1)

\* faulty variant: done is emitted at the finish_reason chunk without
\* waiting for the usage chunk
AzureFinishNoDefer(st, f, out) ==
    IF \E i \in 1..Len(f.choices) : f.choices[i].finish_reason # NoFinish
    THEN [st |-> [st EXCEPT !.has_finished = TRUE],
          out |-> Append(out, Ev("done", <<>>)), stop |-> TRUE, ret |-> TRUE]
    ELSE [st |-> st, out |-> out, stop |-> FALSE, ret |-> FALSE]

\* lines 274-284: the completion check
AzureFinish(st, f, out) ==
    IF \E i \in 1..Len(f.choices) : f.choices[i].finish_reason # NoFinish
    THEN IF f.usage.has
         THEN [st |-> [st EXCEPT !.has_finished = TRUE],
               out |-> Append(out, Ev("done", <<>>)), stop |-> TRUE, ret |-> TRUE]
         ELSE [st |-> [st EXCEPT !.has_finished = TRUE], out |-> out, stop |-> FALSE,
               ret |-> FALSE]
    ELSE [st |-> st, out |-> out, stop |-> FALSE, ret |-> FALSE]

\* lines 305-319: the code after the loop
AzureAfterLoop(st) ==
    IF st.has_finished
    THEN (IF st.accumulated_text # <<>> THEN <<AzureEstimate(st.accumulated_text)>> ELSE <<>>)
         \o <<Ev("done", <<>>)>>
    ELSE <<>>

\* one pass of the for-data loop: the new locals, the events yielded and
\* whether the generator ends
AzureStep(st, f) ==
    IF f.type = "[DONE]"
    THEN \* lines 194-196: break, so the code after the loop runs
         [st |-> st, out |-> <<Ev("done", <<>>)>> \o AzureAfterLoop(st), stop |-> TRUE]
    ELSE IF f.type # "chunk" THEN [st |-> st, out |-> <<>>, stop |-> FALSE]
    ELSE
    LET sends == ~st.sent_model /\ f.model # <<>>
        st0 == IF sends THEN [st EXCEPT !.sent_model = TRUE] ELSE st
        out0 == IF sends THEN <<Ev("model", f.model)>> ELSE <<>>
        c == AzureChoices(st0, f.choices, out0)
        st1 == c.st
        tools_done == /\ \E i \in 1..Len(f.choices) : f.choices[i].finish_reason = "tool_calls"
                      /\ DOMAIN st1.current_tool_calls # {}
        has_tokens == f.usage.has /\ f.usage.total_tokens > 0
        out2 == IF has_tokens THEN Append(c.out, AzureTokens(f.usage)) ELSE c.out
        fin == AzureFinish(st1, f, out2)
    IN
    IF tools_done
    THEN \* lines 245-251
         [st |-> st1,
          out |-> c.out \o Repeat(Ev("tool_ready", <<>>),
                                  Cardinality(DOMAIN st1.current_tool_calls)),
          stop |-> TRUE]
    ELSE IF has_tokens /\ st1.has_finished
    THEN \* lines 269-272
         [st |-> st1, out |-> Append(out2, Ev("done", <<>>)), stop |-> TRUE]
    ELSE IF fin.ret THEN [st |-> fin.st, out |-> fin.out, stop |-> TRUE]
    ELSE IF fin.st.has_finished /\ ~f.usage.has /\ Len(f.choices) = 0
    THEN \* lines 288-303
         [st |-> fin.st,
          out |-> (IF fin.st.accumulated_text # <<>>
                   THEN Append(fin.out, AzureEstimate(fin.st.accumulated_text))
                   ELSE fin.out) \o <<Ev("done", <<>>)>>,
          stop |-> TRUE]
    ELSE [st |-> fin.st, out |-> fin.out, stop |-> FALSE]

\* ------------------------------------------------------------------------
\* The mapper as a generator: it consumes a line when the consumer asks
\* for the next event and none is left
\* ------------------------------------------------------------------------
MaxFrames == 4

MapSet(st) ==
    /\ sent_model' = st.sent_model
    /\ current_tool_calls' = st.current_tool_calls
    /\ accumulated_text' = st.accumulated_text
    /\ has_finished' = st.has_finished

MapperInit(p) ==
    /\ provider = p
    /\ wire = <<>>
    /\ unread = <<>>
    /\ lines_ended = FALSE
    /\ events = <<>>
    /\ taken = 0
    /\ sent_model = MapNew.sent_model
    /\ current_tool_calls = MapNew.current_tool_calls
    /\ accumulated_text = MapNew.accumulated_text
    /\ has_finished = MapNew.has_finished
    /\ mapper_done = FALSE

\* map_events consumes the line f
MapStep(f) ==
    /\ ~mapper_done
    /\ Len(wire) < MaxFrames
    /\ wire' = Append(wire, f)
    /\ LET r == IF provider = "bedrock"
                THEN [st |-> MapNow, out |-> BedrockStep(f).out, stop |-> BedrockStep(f).stop]
                ELSE AzureStep(MapNow, f)
       IN /\ MapSet(r.st)
          /\ events' = events \o r.out
          /\ mapper_done' = r.stop
    /\ UNCHANGED <<provider, unread, lines_ended>>

\* the lines are exhausted: the for-data loop ends
MapEnd ==
    /\ ~mapper_done
    /\ events' = events \o (IF provider = "azure" THEN AzureAfterLoop(MapNow) ELSE <<>>)
    /\ mapper_done' = TRUE
    /\ lines_ended' = TRUE
    /\ UNCHANGED <<provider, wire, unread, sent_model, current_tool_calls,
                   accumulated_text, has_finished>>

\* the lines of the two dialects
BedrockFrames ==
    { DoneLine, BadJsonLine, UnknownFrame,
      MessageStart(<<"m1">>),
      MessageStart(<<>>),
      ToolUseStart("t1", "calc"),
      BlockDelta("text_delta", <<"a">>),
      BlockDelta("text_delta", <<"b">>),
      BlockDelta("thinking_delta", <<"t">>),
      BlockDelta("input_json_delta", <<"{", "}">>),
      BlockStop,
      MessageStop(NoUsage, AnthropicUsage(10, 5)),
      MessageStop(BedrockMetrics(10, 20), NoUsage),
      MessageStop(NoUsage, NoUsage) }

AzureFrames ==
    { DoneLine, BadJsonLine,
      Chunk(<<"gpt">>, <<Choice(<<"a">>, <<>>, NoFinish)>>, NoUsage),
      Chunk(<<"gpt">>, <<Choice(<<>>, <<>>, "stop")>>, NoUsage),
      Chunk(<<"gpt">>, <<Choice(<<>>, <<>>, "stop")>>, OpenAIUsage(15, 10, 5)),
      Chunk(<<"gpt">>, <<>>, OpenAIUsage(15, 10, 5)),
      Chunk(<<"gpt">>, <<>>, OpenAIUsage(27, 20, 7)),
      Chunk(<<"gpt">>, <<>>, NoUsage),
      Chunk(<<>>, <<>>, NoUsage),
      Chunk(<<"gpt">>, <<Choice(<<>>, <<ToolCallDelta(0, "t1", "calc", <<>>)>>, NoFinish)>>,
            NoUsage),
      Chunk(<<"gpt">>, <<Choice(<<>>, <<ToolCallDelta(0, "", "", <<"{", "}">>)>>, NoFinish)>>,
            NoUsage),
      Chunk(<<"gpt">>, <<Choice(<<>>, <<>>, "tool_calls")>>, NoUsage) }

FramesOf(p) == IF p = "bedrock" THEN BedrockFrames ELSE AzureFrames

\* list(map_events(lines)): the consumer takes every event
MapLine(f) ==
    /\ pc = "idle"
    /\ MapStep(f)
    /\ taken' = Len(events')
    /\ UNCHANGED <<bvars, qvars, svars, mvars, cvars>>

MapEndOfLines ==
    /\ pc = "idle"
    /\ MapEnd
    /\ taken' = Len(events')
    /\ UNCHANGED <<bvars, qvars, svars, mvars, cvars>>

\* a line of the stream that comes after the generator has ended at a
\* break or return: it is never read
LineUnread(f) ==
    /\ pc = "idle"
    /\ mapper_done
    /\ ~lines_ended
    /\ Len(wire) + Len(unread) < MaxFrames
    /\ unread' = Append(unread, f)
    /\ UNCHANGED <<provider, wire, lines_ended, events, taken, sent_model,
                   current_tool_calls, accumulated_text, has_finished, mapper_done,
                   bvars, qvars, svars, mvars, cvars>>

\* list(map_events(iter(lines))): the generator run over a whole list of
\* lines; ended tells whether the list is exhausted
RECURSIVE MapFold(_, _, _, _)
MapFold(p, st, lines, out) ==
    IF lines = <<>> THEN [st |-> st, out |-> out, stop |-> FALSE]
    ELSE LET r == IF p = "bedrock"
                  THEN [st |-> st, out |-> BedrockStep(Head(lines)).out,
                        stop |-> BedrockStep(Head(lines)).stop]
                  ELSE AzureStep(st, Head(lines))
         IN  IF r.stop THEN [st |-> r.st, out |-> out \o r.out, stop |-> TRUE]
             ELSE MapFold(p, r.st, Tail(lines), out \o r.out)

MapEvents(p, lines, ended) ==
    LET r == MapFold(p, MapNew, lines, <<>>)
    IN  IF r.stop \/ ~ended THEN r.out
        ELSE r.out \o (IF p = "azure" THEN AzureAfterLoop(r.st) ELSE <<>>)

\* the lines a turn without tools brings in the Bedrock dialect
BedrockTextFrames ==
    { DoneLine, BadJsonLine,
      MessageStart(<<"m1">>),
      BlockDelta("text_delta", <<"a">>),
      BlockDelta("text_delta", <<"b">>),
      BlockDelta("text_delta", <<>>),
      BlockStop,
      MessageStop(NoUsage, AnthropicUsage(10, 5)),
      MessageStop(BedrockMetrics(10, 20), NoUsage),
      MessageStop(NoUsage, NoUsage) }

\* _stream_events pulls the next line for the mapper
Pull(f) ==
    /\ pc = "loop"
    /\ taken = Len(events)
    /\ MapStep(f)
    /\ UNCHANGED <<taken, bvars, qvars, svars, mvars, cvars>>

PullEndOfLines ==
    /\ pc = "loop"
    /\ taken = Len(events)
    /\ MapEnd
    /\ UNCHANGED <<taken, bvars, qvars, svars, mvars, cvars>>

\* the loop takes the next yielded event
TakeEvent ==
    /\ taken < Len(events)
    /\ SendMessageIter(events[taken + 1])
    /\ taken' = taken + 1
    /\ UNCHANGED <<provider, wire, unread, lines_ended, events, sent_model,
                   current_tool_calls, accumulated_text, has_finished, mapper_done>>

\* the generator is exhausted
PipeEnds ==
    /\ taken = Len(events)
    /\ mapper_done
    /\ LoopEnds(<<>>)
    /\ UNCHANGED pvars

\* the transport raises while the mapper waits for a line
PipeRaises(kind) ==
    /\ taken = Len(events)
    /\ ~mapper_done
    /\ TransportRaises(kind, <<>>)
    /\ UNCHANGED pvars

\* the lines a turn without tools brings in the Azure dialect: content
\* chunks without and with usage, a finish chunk, a usage chunk, [DONE]
AzureTextFrames ==
    { DoneLine,
      Chunk(<<"gpt">>, <<Choice(<<"a">>, <<>>, NoFinish)>>, NoUsage),
      Chunk(<<"gpt">>, <<Choice(<<"b">>, <<>>, NoFinish)>>, NoUsage),
      Chunk(<<"gpt">>, <<Choice(<<"a">>, <<>>, NoFinish)>>, OpenAIUsage(15, 10, 5)),
      Chunk(<<"gpt">>, <<Choice(<<>>, <<>>, "stop")>>, NoUsage),
      Chunk(<<"gpt">>, <<>>, OpenAIUsage(15, 10, 5)) }

\* a line the provider sends after send_message has returned: the loop
\* is over and the line is never read
LineAfterReturn(f) ==
    /\ pc = "returned"
    /\ ~lines_ended
    /\ Len(wire) + Len(unread) < MaxFrames
    /\ IF unread = <<>> THEN TRUE ELSE unread[Len(unread)] # DoneLine
    /\ unread' = Append(unread, f)
    /\ UNCHANGED <<provider, wire, lines_ended, events, taken, sent_model,
                   current_tool_calls, accumulated_text, has_finished, mapper_done,
                   bvars, qvars, svars, mvars, cvars>>

\* ------------------------------------------------------------------------
\* The loop fed by an arbitrary mapper (the mapper is a parameter of the
\* call): any event may come next
\* ------------------------------------------------------------------------
MaxEvents == 4

MaxToolEvents == 6

\* "15|10|5|0.000105"
SomeTokens == TokenInfo(15, 10, 5, 105)

ClientEvents ==
    { Ev("model", <<"m1">>), Ev("text", <<"a">>), Ev("text", <<"b">>),
      Ev("tool_start", ToolJson("t1", "calc")), Ev("tool_ready", <<>>),
      Ev("tokens", SomeTokens), Ev("done", <<>>) }

ToolEvents ==
    { Ev("tool_start", ToolJson("t1", "calc")), Ev("tool_start", ToolJson("t2", "time")),
      Ev("tool_input_delta", <<"{", "x">>), Ev("tool_input_delta", <<"}">>),
      Ev("tool_ready", <<>>) }

Iterate(e) ==
    /\ Len(seen) < MaxEvents
    /\ \/ SendMessageIter(e)
       \/ \E esc \in BOOLEAN, lines \in ClientRenders, throttled \in BOOLEAN :
             LiveIter(e, esc, lines, throttled)
    /\ UNCHANGED pvars

IterateTool(e) ==
    /\ Len(seen) < MaxToolEvents
    /\ \/ SendMessageIter(e)
       \/ \E lines \in ClientRenders : LiveIter(e, FALSE, lines, FALSE)
    /\ UNCHANGED pvars

Raises(kind) == (\E lines \in ClientRenders : TransportRaises(kind, lines)) /\ UNCHANGED pvars

Ends == (\E lines \in ClientRenders : LoopEnds(lines)) /\ UNCHANGED pvars

\* ------------------------------------------------------------------------
\* SSE payload lines (util/sse_client.py, streaming_client.py, debug/debug.py)
\* ------------------------------------------------------------------------
DataPrefix == <<"d", "a", "t", "a", ":">>

\* str.lstrip(): leading whitespace removed
RECURSIVE LStripWs(_)
LStripWs(s) == IF s # <<>> /\ Head(s) \in Whitespace THEN LStripWs(Tail(s)) ELSE s

\* raw.startswith("data:")
StartsWithData(raw) == Len(raw) >= 5 /\ Take(raw, 5) = DataPrefix

\* faulty variant: the prefix is dropped but the whitespace after it is kept
SsePayloadKeepsWhitespace(raw) == IF StartsWithData(raw) THEN Drop(raw, 5) ELSE raw

\* raw[5:].lstrip() if raw.startswith("data:") else raw
SsePayload(raw) == IF StartsWithData(raw) THEN LStripWs(Drop(raw, 5)) ELSE raw

\* the items the line loop yields for a list of raw lines: empty raw lines
\* are skipped
RECURSIVE SseItems(_)
SseItems(raws) ==
    IF raws = <<>> THEN <<>>
    ELSE IF Head(raws) = <<>> THEN SseItems(Tail(raws))
    ELSE <<SsePayload(Head(raws))>> \o SseItems(Tail(raws))

\* the number of raw lines read from one response
MaxRaw == 4

\* the raw lines of a response: keep-alive lines, data lines with and
\* without blanks after the colon, a line of another field, and lines that
\* only look like data lines
SseRawLines ==
    { <<>>, DataPrefix, DataPrefix \o <<SPC, "x">>, DataPrefix \o <<"x">>,
      DataPrefix \o <<SPC, SPC, "x", SPC>>, <<"e", ":", SPC, "x">>,
      <<SPC>> \o DataPrefix \o <<"x">>, <<"d", "a", "t", "a">> }

SseInit ==
    /\ sse_pc = "new"
    /\ sse_raw = <<>>
    /\ sse_out = <<>>

\* the request is sent and r.raise_for_status() is called (lines 24-25)
SseOpen(ok) ==
    /\ sse_pc = "new"
    /\ sse_pc' = IF ok THEN "iterating" ELSE "raised"
    /\ UNCHANGED <<sse_raw, sse_out, notS>>

\* one pass of the loop over r.iter_lines (lines 26-29)
SseLine(raw) ==
    /\ sse_pc = "iterating"
    /\ Len(sse_raw) < MaxRaw
    /\ sse_raw' = Append(sse_raw, raw)
    /\ sse_out' = IF raw = <<>> THEN sse_out ELSE Append(sse_out, SsePayload(raw))
    /\ UNCHANGED <<sse_pc, notS>>

\* the response ends
SseEnd ==
    /\ sse_pc = "iterating"
    /\ sse_pc' = "done"
    /\ UNCHANGED <<sse_raw, sse_out, notS>>

SseNext ==
    \/ \E ok \in BOOLEAN : SseOpen(ok)
    \/ \E raw \in SseRawLines : SseLine(raw)
    \/ SseEnd

\* ------------------------------------------------------------------------
\* Queue-fed stream (debug/debug.py SSEReader, stream_response_block)
\* ------------------------------------------------------------------------
\* queue.Queue(maxsize=1000), scaled
QueueMax == 2

QueueRawLines ==
    { <<>>, DataPrefix, DataPrefix \o <<SPC, "x">>, DataPrefix \o <<"y">>, <<"z">> }

QueueInit ==
    /\ resp_open = TRUE
    /\ raw_read = <<>>
    /\ held = <<>>
    /\ queue = <<>>
    /\ reader_pc = "new"
    /\ stop_event = FALSE
    /\ closes = <<>>
    /\ delivered = <<>>
    /\ consumer_pc = "idle"
    /\ q_abort = FALSE

\* faulty variant: put adds the item at the head of the queue
QueuePutAtHead(qu, item) == <<item>> \o qu

\* queue.Queue.put: first in, first out
QueuePut(qu, item) == Append(qu, item)

\* response.close(): releases the connection; on a closed response it
\* changes nothing
RespClose(who) ==
    /\ resp_open' = FALSE
    /\ closes' = Append(closes, who)

\* stream_response_block up to reader.start() (lines 256-276)
StartStream ==
    /\ consumer_pc = "idle"
    /\ consumer_pc' = "poll"
    /\ reader_pc' = "reading"
    /\ q_abort' = FALSE
    /\ UNCHANGED <<resp_open, raw_read, held, queue, stop_event, closes, delivered, notQ>>

\* SSEReader.run: event_iter_lines gives the next line; an empty raw line is
\* skipped, otherwise stop is tested before the put (lines 163-167).  A
\* response closed by the other thread may still give buffered lines.
ReaderRead(raw) ==
    /\ reader_pc = "reading"
    /\ Len(raw_read) < MaxRaw
    /\ raw_read' = Append(raw_read, raw)
    /\ IF raw = <<>>
       THEN UNCHANGED <<held, reader_pc>>
       ELSE IF stop_event
       THEN reader_pc' = "closing" /\ UNCHANGED held
       ELSE reader_pc' = "putting" /\ held' = <<SsePayload(raw)>>
    /\ UNCHANGED <<resp_open, queue, stop_event, closes, delivered, consumer_pc, q_abort, notQ>>

\* self.out.put(line, timeout=0.1) with room in the queue (line 168)
ReaderPut ==
    /\ reader_pc = "putting"
    /\ Len(queue) < QueueMax
    /\ queue' = QueuePut(queue, held[1])
    /\ held' = <<>>
    /\ reader_pc' = "reading"
    /\ UNCHANGED <<resp_open, raw_read, stop_event, closes, delivered, consumer_pc, q_abort, notQ>>

\* faulty variant: put(line) without a timeout waits for room in the queue
ReaderPutBlocks ==
    /\ reader_pc = "putting"
    /\ Len(queue) = QueueMax
    /\ UNCHANGED vars

\* the put times out on a full queue: queue.Full ends the loop and the line
\* is dropped (lines 169-170)
ReaderPutTimeout ==
    /\ reader_pc = "putting"
    /\ Len(queue) = QueueMax
    /\ held' = <<>>
    /\ reader_pc' = "closing"
    /\ UNCHANGED <<resp_open, raw_read, queue, stop_event, closes, delivered, consumer_pc, q_abort,
                   notQ>>

\* the response ends, or reading it raises (lines 171-172)
ReaderEnd ==
    /\ reader_pc = "reading"
    /\ reader_pc' = "closing"
    /\ UNCHANGED <<resp_open, raw_read, held, queue, stop_event, closes, delivered, consumer_pc,
                   q_abort, notQ>>

\* finally: self.resp.close() (lines 173-177); the thread is dead after it
ReaderClose ==
    /\ reader_pc = "closing"
    /\ RespClose("reader")
    /\ reader_pc' = "dead"
    /\ UNCHANGED <<raw_read, held, queue, stop_event, delivered, consumer_pc, q_abort, notQ>>

\* faulty variant: the cancel path sets the flag and returns without
\* stopping the reader
CancelObservedNoStop ==
    /\ q_abort' = TRUE
    /\ consumer_pc' = "cancelling"
    /\ UNCHANGED stop_event

\* iter_from_queue: _abort or check_for_esc(0.05) is true (lines 282-284)
CancelObserved ==
    /\ q_abort' = TRUE
    /\ stop_event' = TRUE
    /\ consumer_pc' = "cancelling"

\* the top of the loop of iter_from_queue (line 282); esc says that the
\* cancel key was pressed
ConsumerPoll(esc) ==
    /\ consumer_pc = "poll"
    /\ IF q_abort \/ esc
       THEN CancelObserved
       ELSE consumer_pc' = "get" /\ UNCHANGED <<q_abort, stop_event>>
    /\ UNCHANGED <<resp_open, raw_read, held, queue, reader_pc, closes, delivered, notQ>>

\* response.close() and return on the cancel path (lines 285-289)
ConsumerCancelClose ==
    /\ consumer_pc = "cancelling"
    /\ RespClose("consumer")
    /\ consumer_pc' = "returned"
    /\ UNCHANGED <<raw_read, held, queue, reader_pc, stop_event, delivered, q_abort, notQ>>

\* q.get(timeout=0.05) returns an item; an empty item is not yielded
\* (lines 291, 296-297)
ConsumerGet ==
    /\ consumer_pc = "get"
    /\ queue # <<>>
    /\ queue' = Tail(queue)
    /\ delivered' = IF Head(queue) # <<>> THEN Append(delivered, Head(queue)) ELSE delivered
    /\ consumer_pc' = "poll"
    /\ UNCHANGED <<resp_open, raw_read, held, reader_pc, stop_event, closes, q_abort, notQ>>

\* q.get times out on an empty queue (line 292)
ConsumerGetEmpty ==
    /\ consumer_pc = "get"
    /\ queue = <<>>
    /\ consumer_pc' = "timed_out"
    /\ UNCHANGED <<resp_open, raw_read, held, queue, reader_pc, stop_event, closes, delivered,
                   q_abort, notQ>>

\* if not reader.is_alive(): return, else continue (lines 293-295)
ConsumerCheckAlive ==
    /\ consumer_pc = "timed_out"
    /\ consumer_pc' = IF reader_pc = "dead" THEN "returned" ELSE "poll"
    /\ UNCHANGED <<resp_open, raw_read, held, queue, reader_pc, stop_event, closes, delivered,
                   q_abort, notQ>>

\* the loop over the mapper's events ends (the generator returned, or a done
\* event broke the loop) and the with-block closes the response
\* (lines 262, 299-319)
ConsumerExit ==
    /\ consumer_pc \in {"poll", "returned"}
    /\ consumer_pc = "poll" => delivered # <<>>
    /\ RespClose("context")
    /\ consumer_pc' = "exited"
    /\ UNCHANGED <<raw_read, held, queue, reader_pc, stop_event, delivered, q_abort, notQ>>

QueueNext ==
    \/ StartStream
    \/ \E raw \in QueueRawLines : ReaderRead(raw)
    \/ ReaderPut
    \/ ReaderPutTimeout
    \/ ReaderEnd
    \/ ReaderClose
    \/ \E esc \in BOOLEAN : ConsumerPoll(esc)
    \/ ConsumerCancelClose
    \/ ConsumerGet
    \/ ConsumerGetEmpty
    \/ ConsumerCheckAlive
    \/ ConsumerExit

\* ------------------------------------------------------------------------
\* Specifications
\* ------------------------------------------------------------------------
Init == BlockInit /\ MdInit /\ ClientInit({TRUE}) /\ MapperInit("direct") /\ QueueInit /\ SseInit

\* iter_sse_lines over any response
SpecSse == Init /\ [][SseNext]_vars

\* the reader thread and the consumer of the queue-fed stream, interleaved
SpecQueue == Init /\ [][QueueNext]_vars

\* the raw lines of the response when only the progress of the threads is
\* of interest: a keep-alive line and a data line
ProgressRawLines == { <<>>, DataPrefix \o <<"y">> }

\* a step of the reader thread
ReaderStep ==
    \/ \E raw \in ProgressRawLines : ReaderRead(raw)
    \/ ReaderPut
    \/ ReaderPutTimeout
    \/ ReaderEnd
    \/ ReaderClose

\* a step of the thread that runs stream_response_block
ConsumerStep ==
    \/ StartStream
    \/ \E esc \in BOOLEAN : ConsumerPoll(esc)
    \/ ConsumerCancelClose
    \/ ConsumerGet
    \/ ConsumerGetEmpty
    \/ ConsumerCheckAlive
    \/ ConsumerExit

QueueFairNext == ReaderStep \/ ConsumerStep

\* the queue-fed stream with both threads scheduled: a thread that can take
\* a step takes one.  Every wait of either thread is bounded: the put and
\* the get have timeouts (lines 168, 291), the key poll has one (line 282)
\* and the read of the response has the request's timeout (line 262).
SpecQueueFair ==
    Init /\ [][QueueFairNext]_vars /\ WF_vars(ReaderStep) /\ WF_vars(ConsumerStep)

\* the segmenter under any sequence of feeds and flushes
SpecBlock == Init /\ [][BlockNext]_vars

\* the renderer under any sequence of updates
SpecMd == Init /\ [][MdNext]_vars

\* a BlockBuffer fed fences of different lengths
SpecFences == Init /\ [][FencesNext]_vars

ClientNext ==
    \/ \E m \in Methods : Call(m)
    \/ Abort
    \/ \E e \in ClientEvents : Iterate(e)
    \/ \E kind \in TransportKinds : Raises(kind)
    \/ Ends

\* one call of the client with a tool executor, under any event stream,
\* abort and transport failure
SpecClient == Init /\ [][ClientNext]_vars

ToolsNext ==
    \/ \E m \in Methods : Call(m)
    \/ \E e \in ToolEvents : IterateTool(e)
    \/ Ends

\* one call of the client with a tool executor, under any stream of tool events
SpecTools == Init /\ [][ToolsNext]_vars

\* the user presses the cancel key during stream_with_live_rendering: the
\* byte waits in stdin until _esc_pressed reads it
PressEsc ==
    /\ IsLive
    /\ pc = "loop"
    /\ ~cancel_pending
    /\ cancel_pending' = TRUE
    /\ UNCHANGED <<method, has_executor, pc, text_buffer, model_name, tool_calls_made,
                   current_tool, tool_input_buffer, self_abort, ABORT, result, seen, nproc,
                   executed, failed, final_updates, tool_errors, bvars, qvars, svars, mvars, pvars>>

CancelEvents == { Ev("text", <<"a">>), Ev("tokens", SomeTokens) }

\* the next event arrives; the cancel key is read from stdin only here
IterateCancel(e) ==
    /\ Len(seen) < MaxEvents
    /\ \/ SendMessageIter(e)
       \/ \E lines \in ClientRenders : LiveIter(e, FALSE, lines, FALSE)
    /\ UNCHANGED pvars

CancelNext ==
    \/ \E m \in Methods : Call(m)
    \/ PressEsc
    \/ Abort
    \/ \E e \in CancelEvents : IterateCancel(e)
    \/ \E kind \in TransportKinds : Raises(kind)
    \/ Ends

\* one call of the client with cancel requests between the events
SpecCancel == Init /\ [][CancelNext]_vars

\* chunks with tool call fragments: a call started without and with
\* arguments, arguments for a started and for another index, an id without
\* a name, two fragments in one chunk, text, and the finish chunk
AzureToolFrames ==
    { Chunk(<<"gpt">>, <<Choice(<<>>, <<ToolCallDelta(0, "t1", "calc", <<>>)>>, NoFinish)>>,
            NoUsage),
      Chunk(<<"gpt">>, <<Choice(<<>>, <<ToolCallDelta(0, "", "", <<"{", "}">>)>>, NoFinish)>>,
            NoUsage),
      Chunk(<<"gpt">>, <<Choice(<<>>, <<ToolCallDelta(1, "t2", "time", <<"{">>)>>, NoFinish)>>,
            NoUsage),
      Chunk(<<"gpt">>, <<Choice(<<>>, <<ToolCallDelta(1, "", "", <<"}">>)>>, NoFinish)>>,
            NoUsage),
      Chunk(<<"gpt">>, <<Choice(<<>>, <<ToolCallDelta(2, "t3", "", <<"x">>)>>, NoFinish)>>,
            NoUsage),
      Chunk(<<"gpt">>, <<Choice(<<>>, <<ToolCallDelta(0, "t1", "calc", <<>>),
                                        ToolCallDelta(1, "", "", <<"}">>)>>, NoFinish)>>,
            NoUsage),
      Chunk(<<"gpt">>, <<Choice(<<"a">>, <<>>, NoFinish)>>, NoUsage),
      Chunk(<<"gpt">>, <<Choice(<<>>, <<>>, "tool_calls")>>, NoUsage) }

AzureToolsNext ==
    \/ \E f \in AzureToolFrames : MapLine(f)
    \/ MapEndOfLines

AzureToolsInit ==
    /\ BlockInit /\ MdInit /\ ClientInit({TRUE}) /\ QueueInit /\ SseInit
    /\ MapperInit("azure")

\* list(azure.map_events(lines)) under any sequence of tool call chunks
SpecAzureTools == AzureToolsInit /\ [][AzureToolsNext]_vars

\* text, an estimated tokens event as azure.map_events writes it for the
\* text "a" ("~11|~10|~1|0.000018"), and the exact event with the same numbers
UsageEvents ==
    { Ev("model", <<"m1">>), Ev("text", <<"a">>), Ev("text", <<"b">>),
      AzureEstimate(<<"a">>), Ev("tokens", TokenInfo(11, 10, 1, 18)) }

IterateUsage(e) ==
    /\ Len(seen) < MaxEvents
    /\ \/ SendMessageIter(e)
       \/ \E lines \in ClientRenders : LiveIter(e, FALSE, lines, FALSE)
    /\ UNCHANGED pvars

UsageNext ==
    \/ \E m \in Methods : Call(m)
    \/ \E e \in UsageEvents : IterateUsage(e)
    \/ Ends

\* one call of the client under streams that end with estimated or exact usage
SpecUsage == Init /\ [][UsageNext]_vars

\* the events that stop the waiting indicator, among events that do not
WaitingEvents ==
    { Ev("model", <<"m1">>), Ev("thinking", <<"h">>), Ev("text", <<"a">>),
      Ev("tool_start", ToolJson("t1", "calc")), Ev("tool_ready", <<>>),
      Ev("tokens", SomeTokens) }

IterateWaiting(e) ==
    /\ Len(seen) < MaxEvents
    /\ \/ SendMessageIter(e)
       \/ \E lines \in ClientRenders, throttled \in BOOLEAN : LiveIter(e, FALSE, lines, throttled)
    /\ UNCHANGED pvars

WaitingNext ==
    \/ \E m \in Methods : Call(m)
    \/ \E e \in WaitingEvents : IterateWaiting(e)
    \/ \E kind \in TransportKinds : Raises(kind)
    \/ Ends

\* one call of the client under streams with every kind of content event
SpecWaiting == Init /\ [][WaitingNext]_vars

\* thinking and response text in any order
ThinkingEvents ==
    { Ev("thinking", <<"h">>), Ev("thinking", <<"k">>), Ev("thinking", <<>>),
      Ev("text", <<"a">>), Ev("text", <<"b">>) }

IterateThinking(e) ==
    /\ Len(seen) < MaxEvents
    /\ \E lines \in ClientRenders, throttled \in BOOLEAN : LiveIter(e, FALSE, lines, throttled)
    /\ UNCHANGED pvars

ThinkingNext ==
    \/ Call("stream_with_live_rendering")
    \/ \E e \in ThinkingEvents : IterateThinking(e)
    \/ Ends

\* one call of stream_with_live_rendering under streams of thinking and
\* text events
SpecThinking == Init /\ [][ThinkingNext]_vars

\* tool events among a model name and text
StrayToolEvents ==
    { Ev("model", <<"m1">>), Ev("text", <<"a">>),
      Ev("tool_start", ToolJson("t1", "calc")), Ev("tool_input_delta", <<"{", "}">>),
      Ev("tool_ready", <<>>) }

IterateStray(e) ==
    /\ Len(seen) < MaxEvents
    /\ \/ SendMessageIter(e)
       \/ \E lines \in ClientRenders : LiveIter(e, FALSE, lines, FALSE)
    /\ UNCHANGED pvars

StrayToolsInit ==
    /\ BlockInit /\ MdInit /\ ClientInit(BOOLEAN) /\ MapperInit("direct")
    /\ QueueInit /\ SseInit

StrayToolsNext ==
    \/ \E m \in Methods : Call(m)
    \/ \E e \in StrayToolEvents : IterateStray(e)
    \/ Ends

\* one call of the client, with or without a tool executor, under streams
\* in which tool events may come without an open call
SpecStrayTools == StrayToolsInit /\ [][StrayToolsNext]_vars

\* tool calls whose arguments do not parse, among text, tokens and
\* further calls
ToolErrorEvents ==
    { Ev("tool_start", ToolJson("t1", "calc")), Ev("tool_input_delta", <<"{", "x">>),
      Ev("tool_ready", <<>>), Ev("text", <<"a">>), Ev("tokens", SomeTokens) }

ToolErrorsNext ==
    \/ \E m \in Methods : Call(m)
    \/ \E e \in ToolErrorEvents : IterateTool(e)
    \/ Ends

\* one call of the client with a tool executor, under streams in which
\* the arguments of tool calls may fail to parse
SpecToolErrors == Init /\ [][ToolErrorsNext]_vars

MappersInit ==
    /\ BlockInit /\ MdInit /\ ClientInit({TRUE}) /\ QueueInit /\ SseInit
    /\ (MapperInit("bedrock") \/ MapperInit("azure"))

MappersNext ==
    \/ \E f \in FramesOf(provider) : MapLine(f)
    \/ MapEndOfLines
    \/ \E f \in FramesOf(provider) : LineUnread(f)

\* list(map_events(lines)) of either dialect, under any sequence of lines
SpecMappers == MappersInit /\ [][MappersNext]_vars

BedrockPipeInit ==
    BlockInit /\ MdInit /\ ClientInit({TRUE}) /\ MapperInit("bedrock") /\ QueueInit /\ SseInit

BedrockPipeNext ==
    \/ Call("send_message")
    \/ Abort
    \/ \E f \in BedrockTextFrames : Pull(f)
    \/ PullEndOfLines
    \/ TakeEvent
    \/ PipeEnds
    \/ \E kind \in TransportKinds : PipeRaises(kind)

AzurePipeInit ==
    BlockInit /\ MdInit /\ ClientInit({TRUE}) /\ MapperInit("azure") /\ QueueInit /\ SseInit

AzurePipeNext ==
    \/ Call("send_message")
    \/ \E f \in AzureTextFrames : Pull(f)
    \/ PullEndOfLines
    \/ TakeEvent
    \/ PipeEnds
    \/ \E f \in AzureTextFrames : LineAfterReturn(f)

\* send_message reading an Azure stream through azure.map_events
SpecAzureClient == AzurePipeInit /\ [][AzurePipeNext]_vars

\* send_message reading a Bedrock stream through bedrock.map_events
SpecBedrockClient == BedrockPipeInit /\ [][BedrockPipeNext]_vars

\* ------------------------------------------------------------------------
\* Properties of the segmenter
\* ------------------------------------------------------------------------
\* C1: once flush_remaining has been called after the feeds, the blocks
\* returned by the feed calls, in order, followed by the flushed remainder
\* (empty when it is None) are exactly the text that was fed.
C1_NoLossNoDup ==
    flushed # <<>> => Concat(blocks) \o flushed[1].val = fed

\* C1 witness: prose in front of a fence was returned as a block, text was
\* still pending, and flush_remaining returned it.
C1_Witness ==
    /\ flushed # <<>>
    /\ flushed[1].some
    /\ Len(blocks) >= 1
    /\ blocks[1] = <<"a", LF>>

\* a block holds an opening fence whose closing fence (a line-start run of
\* three or more of the same character) is not in the block
RECURSIVE UnclosedFence(_)
UnclosedFence(b) ==
    LET m == OpenFenceSearch(b) IN
    IF m = NoMatch THEN FALSE
    ELSE LET rest == Drop(b, m.end)
             mc == CloseFenceSearch(rest, b[m.start + 1])
         IN  IF mc = NoMatch THEN TRUE ELSE UnclosedFence(Drop(rest, mc.end))

\* C2: no block returned by feed holds an opening fence without its closing
\* fence, however the text is split into feed calls.
C2_FenceSafety ==
    \A i \in 1..Len(blocks) : ~UnclosedFence(blocks[i])

\* ------------------------------------------------------------------------
\* Properties of the live renderer
\* ------------------------------------------------------------------------
\* C3: every step of MarkdownStream leaves the previous value of printed a
\* prefix of the new one: printed lines are only appended to, never altered
\* or removed, also when a later render reflows or shrinks.
C3_PrintedAppendOnly == [][IsPrefix(printed, printed')]_vars

\* C3 witness: lines were printed and a later processed frame rendered
\* differently at a printed index (reflow) or came out shorter than printed.
C3_Witness ==
    /\ printed # <<>>
    /\ ~IsPrefix(printed, last_rendered)

\* ------------------------------------------------------------------------
\* Properties of the client
\* ------------------------------------------------------------------------
\* the concatenation of the values of the text events of a history
RECURSIVE TextOf(_)
TextOf(h) ==
    IF h = <<>> THEN <<>>
    ELSE (IF Head(h).kind = "text" THEN Head(h).value ELSE <<>>) \o TextOf(Tail(h))

\* the texts of the text_delta frames of a sequence of lines
RECURSIVE DeltaTextOf(_)
DeltaTextOf(w) ==
    IF w = <<>> THEN <<>>
    ELSE (IF Head(w).type = "content_block_delta" /\ Head(w).delta = "text_delta"
          THEN Head(w).text ELSE <<>>) \o DeltaTextOf(Tail(w))

\* the lines are message_start with a model, text deltas, and a
\* message_stop carrying usage with a positive token sum
IsTextTurn(w) ==
    /\ Len(w) >= 2
    /\ w[1].type = "message_start" /\ w[1].model # <<>>
    /\ \A i \in 2..(Len(w) - 1) :
          w[i].type = "content_block_delta" /\ w[i].delta = "text_delta"
    /\ w[Len(w)].type = "message_stop"
    /\ (w[Len(w)].metrics.has \/ w[Len(w)].usage.has)

\* input plus output tokens of the usage a message_stop frame carries
UsageSum(f) ==
    LET u == IF f.metrics.has THEN f.metrics ELSE f.usage
    IN  u.inputTokenCount + u.input_tokens + u.outputTokenCount + u.output_tokens

\* C4: when send_message has read a Bedrock stream made of message_start
\* with model m, text deltas and a message_stop with usage i, o (i + o > 0),
\* and neither an abort nor a transport failure occurred, the tokens event
\* of the message_stop is the next event to take or the call has returned
\* the StreamResult with the deltas' texts concatenated in wire order,
\* tokens = i + o, model_name = m, aborted = false and error = None.
C4_BedrockTextTurn ==
    (/\ provider = "bedrock"
     /\ method = "send_message"
     /\ IsTextTurn(wire)
     /\ UsageSum(wire[Len(wire)]) > 0
     /\ ~self_abort
     /\ failed = "none")
    => \/ /\ pc = "loop"
          /\ taken < Len(events)
          /\ events[taken + 1].kind = "tokens"
       \/ /\ pc = "returned"
          /\ result.some
          /\ result.text = DeltaTextOf(wire)
          /\ result.tokens = UsageSum(wire[Len(wire)])
          /\ result.model_name = wire[1].model
          /\ result.aborted = FALSE
          /\ result.error = NoError

\* C4 witness: the turn model m1, "a", "b", usage 10 + 5 was read and
\* returned with 15 tokens.
C4_Witness ==
    /\ provider = "bedrock"
    /\ pc = "returned"
    /\ Len(wire) = 4
    /\ IsTextTurn(wire)
    /\ result.text = <<"a", "b">>
    /\ result.tokens = 15

\* C5: when an iteration of the loop of send_message or of
\* stream_with_live_rendering found the abort flag set, the call has
\* returned a StreamResult with aborted = true, whose text is the
\* concatenation of the text events of the earlier iterations; the event of
\* that iteration was not processed: no text of it, no tool execution at
\* it, no tokens taken from it.
C5_AbortKeepsEarlierText ==
    (pc # "idle" /\ nproc < Len(seen))
    => /\ pc = "returned"
       /\ result.some
       /\ result.aborted
       /\ nproc = Len(seen) - 1
       /\ result.text = TextOf(Take(seen, Len(seen) - 1))
       /\ result.tokens = 0
       /\ \A i \in 1..Len(executed) : executed[i].at < Len(seen)
       /\ Len(result.tool_calls) = Len(executed)

\* C5 witness: text was accumulated, then the flag was found set at an
\* iteration that pulled a text event.
C5_Witness ==
    /\ pc = "returned"
    /\ result.aborted
    /\ nproc < Len(seen)
    /\ result.text # <<>>
    /\ seen[Len(seen)].kind = "text"

\* the records match the execute_tool calls made, one record per call
RecordsMatch(records, calls) ==
    /\ Len(records) = Len(calls)
    /\ \A i \in 1..Len(calls) :
          /\ records[i].name = calls[i].name
          /\ records[i].input = calls[i].input
          /\ records[i].result = ExecContent(calls[i].name, calls[i].input)

\* C6: when the transport has failed during send_message, whatever the
\* exception and however many events came before, the call has returned
\* (it did not raise) a StreamResult with error set, aborted = false,
\* tokens = 0, the text of all events pulled before the failure and one
\* tool record per tool executed before it.
C6_TransportErrorResult ==
    (method = "send_message" /\ failed # "none")
    => /\ pc = "returned"
       /\ result.some
       /\ result.error # NoError
       /\ result.aborted = FALSE
       /\ result.tokens = 0
       /\ result.text = TextOf(seen)
       /\ RecordsMatch(result.tool_calls, executed)

\* C6 witness: the transport failed with an exception that is not a
\* requests exception after text and a tool call had been accumulated.
C6_Witness ==
    /\ method = "send_message"
    /\ failed = "Exception"
    /\ pc = "returned"
    /\ result.text # <<>>
    /\ Len(result.tool_calls) = 1

\* ------------------------------------------------------------------------
\* Properties of the tool-call accumulator
\* ------------------------------------------------------------------------
\* the positions of the events of a kind in a history
Positions(h, kind) == {i \in 1..Len(h) : h[i].kind = kind}

\* the k-th smallest element of a set of numbers
Nth(S, k) == CHOOSE x \in S : Cardinality({y \in S : y < x}) = k - 1

\* the concatenation of the tool_input_delta values at positions from..to
RECURSIVE FragmentsOf(_, _, _)
FragmentsOf(h, from, to) ==
    IF from > to THEN <<>>
    ELSE (IF h[from].kind = "tool_input_delta" THEN h[from].value ELSE <<>>)
         \o FragmentsOf(h, from + 1, to)

\* the tool calls of a history do not overlap: the k-th tool_ready follows
\* the k-th tool_start and precedes the next tool_start, every fragment
\* lies inside a call, and the fragments of every completed call form
\* valid JSON or are empty
NonOverlappingCalls(h) ==
    LET starts == Positions(h, "tool_start")
        readies == Positions(h, "tool_ready")
        ns == Cardinality(starts)
        nr == Cardinality(readies)
    IN  /\ nr <= ns
        /\ ns <= nr + 1
        /\ \A k \in 1..nr :
              /\ Nth(starts, k) < Nth(readies, k)
              /\ k < ns => Nth(readies, k) < Nth(starts, k + 1)
              /\ LET args == FragmentsOf(h, Nth(starts, k), Nth(readies, k))
                 IN  args = <<>> \/ ArgsJsonOk(args)
        /\ \A d \in Positions(h, "tool_input_delta") :
              \E k \in 1..ns :
                 /\ Nth(starts, k) < d
                 /\ k <= nr => d < Nth(readies, k)

\* C7: for a history of non-overlapping tool calls with an executor
\* configured, the executor was invoked exactly once per completed call, in
\* call order, with the call's name and the parsed concatenation of that
\* call's own fragments, and tool_calls_made holds exactly one record per
\* completed call with the call's id, name, input and the executor's
\* content; this holds in send_message and in stream_with_live_rendering.
C7_ToolCallsRoundTrip ==
    (pc # "idle" /\ has_executor /\ nproc = Len(seen) /\ NonOverlappingCalls(seen))
    => LET starts == Positions(seen, "tool_start")
           readies == Positions(seen, "tool_ready")
           nr == Cardinality(readies)
       IN  /\ Len(executed) = nr
           /\ Len(tool_calls_made) = nr
           /\ \A k \in 1..nr :
                 LET call == ToolJsonLoads(seen[Nth(starts, k)].value)
                     args == ArgsJsonLoads(FragmentsOf(seen, Nth(starts, k), Nth(readies, k)))
                 IN  /\ executed[k] = [name |-> call.name, input |-> args,
                                       at |-> Nth(readies, k)]
                     /\ tool_calls_made[k] =
                           [id |-> call.id, name |-> call.name, input |-> args,
                            result |-> ExecContent(call.name, args)]

\* C7 witness: a call with two fragments was followed by a call of another
\* tool without fragments, and both were recorded with their own input.
C7_Witness ==
    /\ NonOverlappingCalls(seen)
    /\ Len(tool_calls_made) = 2
    /\ tool_calls_made[1].input = {"x"}
    /\ tool_calls_made[2].input = {}
    /\ tool_calls_made[1].id # tool_calls_made[2].id

\* two calls are opened one after the other and then completed by one
\* tool_ready each, with no fragments (each call's arguments are empty)
TwoOpenCalls(h) ==
    /\ Len(h) = 4
    /\ h[1].kind = "tool_start" /\ h[2].kind = "tool_start"
    /\ h[1].value # h[2].value
    /\ h[3].kind = "tool_ready" /\ h[4].kind = "tool_ready"

\* C8: when two tool calls are open at the same time and each is
\* completed by its tool_ready, both calls are executed and recorded, each
\* with its own id and name.
C8_ParallelCallsIndependent ==
    (has_executor /\ nproc = Len(seen) /\ TwoOpenCalls(seen))
    => /\ Len(tool_calls_made) = 2
       /\ {tool_calls_made[i].id : i \in 1..2}
            = {ToolJsonLoads(seen[1].value).id, ToolJsonLoads(seen[2].value).id}

\* ------------------------------------------------------------------------
\* Properties of the mappers
\* ------------------------------------------------------------------------
\* C9: the events a mapper has yielded for a turn hold at most one tokens
\* event, whatever lines came in.
C9_AtMostOneTokens == Cardinality(Positions(events, "tokens")) <= 1

\* a tokens event built from the usage u of an Azure chunk
IsTokensOf(e, u) ==
    /\ e.kind = "tokens"
    /\ Len(Split(e.value, "|")) = 4
    /\ Split(e.value, "|")[1] = ToStr(u.total_tokens)
    /\ Split(e.value, "|")[2] = ToStr(u.prompt_tokens)
    /\ Split(e.value, "|")[3] = ToStr(u.completion_tokens)

\* C10: in the Azure mapper, when a chunk with a finish_reason was followed
\* later by a chunk carrying usage with total_tokens > 0, the events
\* yielded hold a tokens event with that usage's total, input and output,
\* and it comes before any done.
C10_DoneDeferredUntilUsage ==
    (provider = "azure" /\ mapper_done) =>
       LET stream == wire \o unread
       IN \A i \in 1..Len(stream), j \in 1..Len(stream) :
             (/\ i < j
              /\ stream[i].type = "chunk"
              /\ \E c \in 1..Len(stream[i].choices) :
                    stream[i].choices[c].finish_reason # NoFinish
              /\ stream[j].type = "chunk"
              /\ stream[j].usage.has /\ stream[j].usage.total_tokens > 0)
             => \E k \in 1..Len(events) :
                   /\ IsTokensOf(events[k], stream[j].usage)
                   /\ \A d \in Positions(events, "done") : k < d

\* C11: in the events a mapper has yielded, done comes at most once and
\* nothing follows it: every done is the last event, however the stream
\* ended ([DONE], message_stop, a finish_reason chunk, or no more lines).
C11_DoneOnceAndLast ==
    \A d \in Positions(events, "done") : d = Len(events)

\* the three counts of a tokens value, "total|input|output|cost"
TokenCounts(e) == Take(Split(e.value, "|"), 3)

\* a chunk of the stream carries usage that yields an exact count
UsableUsage(stream) ==
    \E j \in 1..Len(stream) :
       stream[j].type = "chunk" /\ stream[j].usage.has /\ stream[j].usage.total_tokens > 0

\* C12: a tokens event of the Azure mapper whose counts carry the ~ prefix
\* was emitted only when a finish_reason had been seen, text had been
\* accumulated and the stream brought no chunk with usable usage; a tokens
\* event without the prefix holds the counts of a usage chunk that was
\* read; no tokens event mixes prefixed and unprefixed counts.
C12_EstimateOnlyWithoutUsage ==
    provider = "azure" =>
       \A k \in 1..Len(events) :
          events[k].kind = "tokens" =>
             LET counts == TokenCounts(events[k]) IN
             /\ Len(counts) = 3
             /\ \/ /\ \A i \in 1..3 : counts[i] # <<>> /\ counts[i][1] = "~"
                   /\ has_finished
                   /\ accumulated_text # <<>>
                   /\ ~UsableUsage(wire \o unread)
                \/ /\ \A i \in 1..3 : IsDigitStr(counts[i])
                   /\ \E j \in 1..Len(wire) :
                         /\ wire[j].type = "chunk"
                         /\ wire[j].usage.has /\ wire[j].usage.total_tokens > 0
                         /\ IsTokensOf(events[k], wire[j].usage)

\* a line that is not JSON, a frame of a type the mapper does not know, or
\* a frame whose fields are missing (a message_start without a model, a
\* chunk without model, choices and usage)
IsMalformed(f) ==
    \/ f = BadJsonLine
    \/ f = UnknownFrame
    \/ f = MessageStart(<<>>)
    \/ f = Chunk(<<>>, <<>>, NoUsage)

WellFormed(f) == ~IsMalformed(f)

\* C13: the events a mapper has yielded are those it yields for the same
\* lines with the malformed ones removed: a malformed line emits nothing,
\* changes nothing, and the lines after it are processed as without it.
C13_MalformedLinesSkipped ==
    events = MapEvents(provider, SelectSeq(wire, WellFormed), lines_ended)

\* the Azure stream that carries what the Bedrock text turn w carries: the
\* model on every chunk, one content chunk per text delta, a chunk with
\* finish_reason "stop", and a trailing chunk with the usage
RECURSIVE AzureContentChunks(_, _)
AzureContentChunks(m, deltas) ==
    IF deltas = <<>> THEN <<>>
    ELSE <<Chunk(m, <<Choice(Head(deltas).text, <<>>, NoFinish)>>, NoUsage)>>
         \o AzureContentChunks(m, Tail(deltas))

AzureEquivalent(w) ==
    LET m == w[1].model
        stop == w[Len(w)]
        u == IF stop.metrics.has THEN stop.metrics ELSE stop.usage
        i == u.inputTokenCount + u.input_tokens
        o == u.outputTokenCount + u.output_tokens
    IN  AzureContentChunks(m, SubSeq(w, 2, Len(w) - 1))
        \o << Chunk(m, <<Choice(<<>>, <<>>, "stop")>>, NoUsage),
              Chunk(m, <<>>, OpenAIUsage(i + o, i, o)) >>

\* the kinds of a sequence of events
KindsOf(es) == [k \in 1..Len(es) |-> es[k].kind]

\* one "text" per text delta that carries text
RECURSIVE TextKinds(_)
TextKinds(deltas) ==
    IF deltas = <<>> THEN <<>>
    ELSE (IF Head(deltas).text # <<>> THEN <<"text">> ELSE <<>>) \o TextKinds(Tail(deltas))

ToolErrorNotFatal ==
    (has_executor /\ tool_errors # <<>> /\ nproc = Len(seen) /\ failed = "none")
    => /\ \A i \in 1..Len(tool_errors), j \in 1..Len(executed) :
             executed[j].at # tool_errors[i].at
       /\ \A i \in 1..Len(tool_errors) :
             LET k == tool_errors[i].at IN
             /\ k = Len(seen) => (current_tool = NoTool /\ pc \in {"loop", "returned"})
             /\ (/\ Len(seen) >= k + 2
                 /\ seen[k + 1].kind = "tool_start"
                 /\ seen[k + 2].kind = "tool_ready")
                => \E j \in 1..Len(executed) :
                      /\ executed[j].at = k + 2
                      /\ executed[j].name = ToolJsonLoads(seen[k + 1].value).name
       /\ Concat(text_buffer) = TextOf(seen)
       /\ pc = "returned"
          => /\ result.some
             /\ result.error = NoError
             /\ result.text = TextOf(seen)
             /\ RecordsMatch(result.tool_calls, executed)
             /\ seen[Len(seen)].kind = "tokens" => result.tokens = 15

\* C15 as stated: a tool_ready whose arguments do not parse is reported as
\* a tool-call error and is not fatal, in send_message and in
\* stream_with_live_rendering.
C15_ReportedAndNotFatal ==
    /\ ToolErrorNotFatal
    /\ \A i \in 1..Len(tool_errors) : tool_errors[i].reported

\* C15 amended: a tool_ready whose arguments do not parse is not fatal in
\* either method; stream_with_live_rendering reports it as an error on the
\* console, send_message skips the call without reporting it.
C15_NotFatal ==
    /\ ToolErrorNotFatal
    /\ \A i \in 1..Len(tool_errors) : tool_errors[i].reported = IsLive

\* C15 witness: send_message met arguments that did not parse, went on,
\* executed a later call, kept the text and returned at the tokens event.
C15_Witness ==
    /\ method = "send_message"
    /\ Len(tool_errors) = 1
    /\ Len(executed) = 1
    /\ executed[1].at > tool_errors[1].at
    /\ pc = "returned"
    /\ result.tokens = 15
    /\ result.error = NoError

\* ------------------------------------------------------------------------
\* Properties of the final render
\* ------------------------------------------------------------------------
\* C16: when update(text, final=True) returns after non-final updates
\* only, printed is the complete rendered line list of text, no line is
\* left in the live region and the live region is stopped.
C16_FinalPrintsEverything ==
    [][(~finalized /\ finalized')
       => (printed' = last_rendered' /\ live_view' = Blank /\ ~live')]_vars

\* C17: every way stream_with_live_rendering returns (tokens event, done
\* event, end of stream, abort, exception) has performed
\* update(text, final=True) at least once, and each time with the text
\* that StreamResult.text holds.
C17_FinalFlushBeforeReturn ==
    (IsLive /\ pc = "returned")
    => /\ final_updates # <<>>
       /\ \A i \in 1..Len(final_updates) : final_updates[i] = result.text
       /\ finalized

\* the ways stream_with_live_rendering has returned from in this state
ReturnedBy ==
    IF ~(IsLive /\ pc = "returned") THEN "none"
    ELSE IF failed # "none" \/ result.error # NoError THEN "exception"
    ELSE IF result.aborted THEN "abort"
    ELSE IF nproc = Len(seen) /\ seen # <<>> /\ seen[Len(seen)].kind = "tokens" THEN "tokens"
    ELSE IF nproc = Len(seen) /\ seen # <<>> /\ seen[Len(seen)].kind = "done" THEN "done"
    ELSE "end"

\* C17 witness: a return by abort after some text was captured, with
\* that text flushed.
C17_Witness ==
    /\ ReturnedBy = "abort"
    /\ result.text # <<>>
    /\ final_updates = <<result.text>>

\* ------------------------------------------------------------------------
\* Properties of the waiting indicator
\* ------------------------------------------------------------------------
\* the events that carry content for the display
ContentKinds == {"model", "thinking", "text", "tool_start"}

\* a content event was processed in this turn
ContentSeen == \E i \in 1..nproc : seen[i].kind \in ContentKinds

\* C18: during stream_with_live_rendering the waiting indicator is active
\* from the start of the turn until the first content event (model,
\* thinking, text or tool_start) and is removed at that event; it is never
\* shown again in the turn; and an update with content, were it made while
\* the indicator is active, clears it.
C18_WaitingUntilFirstContent ==
    /\ [](/\ (IsLive /\ pc = "loop") => (waiting_active = ~ContentSeen)
          /\ (IsLive /\ pc # "idle" /\ ContentSeen) => ~waiting_active
          /\ (IsLive /\ pc = "loop" /\ waiting_active)
             => \A lines \in ClientRenders \ {<<>>}, final \in BOOLEAN, throttled \in BOOLEAN :
                   ~MsUpdate(MsNow, lines, final, throttled).waiting_active)
    /\ [][(IsLive /\ pc # "idle" /\ ~waiting_active) => ~waiting_active']_vars

\* C18 witness: the turn waited through an event without content and the
\* indicator was removed at the tool_start event that followed.
C18_Witness ==
    /\ IsLive
    /\ pc = "loop"
    /\ nproc = 2
    /\ seen[1].kind = "tool_ready"
    /\ seen[2].kind = "tool_start"
    /\ ~waiting_active
    /\ live_view = Blank

\* ------------------------------------------------------------------------
\* Properties of cancellation
\* ------------------------------------------------------------------------
\* C19: in live-rendering mode a cancel requested while the connection
\* delivers no further line is observed by the loop and the turn ends with
\* aborted = true: no turn returns with the cancel key still unread and
\* aborted = false.
C19_CancelWithoutNetworkProgress ==
    (IsLive /\ pc = "returned" /\ cancel_pending) => result.aborted

\* C20: a call of StreamingClient.abort() made while send_message or
\* stream_with_live_rendering is iterating is seen at the next loop
\* iteration, and the call then returns aborted = true.
C20_AbortSeenAtNextIteration ==
    [][(self_abort /\ pc = "loop" /\ Len(seen') > Len(seen))
       => (pc' = "returned" /\ result'.some /\ result'.aborted)]_vars

\* ------------------------------------------------------------------------
\* Properties of the queue-fed stream
\* ------------------------------------------------------------------------
\* the non-empty items among a list of payload lines
NonEmpty(items) == SelectSeq(items, LAMBDA x : x # <<>>)

\* C21: the lines handed to the mapper are at every moment a prefix of the
\* non-empty payload lines the reader read from the response: nothing is
\* reordered, duplicated or delivered after a later line.
C21_DeliveredIsPrefixOfRead == IsPrefix(delivered, NonEmpty(SseItems(raw_read)))

\* C21 witness: two different lines were delivered, with a line of empty
\* payload between them in the response, while the reader holds a further
\* line.
C21_Witness ==
    /\ Len(delivered) = 2
    /\ delivered[1] # delivered[2]
    /\ raw_read[2] = DataPrefix
    /\ reader_pc = "putting"

\* C22: on the cancel path the stop signal is set and the connection is
\* closed by the consumer before it returns; no line is handed to the
\* mapper once the cancel was observed; and a close of the already closed
\* connection (by the reader's cleanup or the enclosing with-block) changes
\* nothing.
C22_CancelStopsAndCloses ==
    /\ []((q_abort /\ consumer_pc \in {"returned", "exited"})
          => (/\ stop_event
              /\ ~resp_open
              /\ \E i \in 1..Len(closes) : closes[i] = "consumer"))
    /\ [][q_abort' => delivered' = delivered]_vars
    /\ [][(~resp_open /\ closes' # closes)
          => (/\ ~resp_open'
              /\ <<raw_read, held, queue, stop_event, delivered, q_abort>>'
                 = <<raw_read, held, queue, stop_event, delivered, q_abort>>)]_vars

\* C22 witness: the cancel was observed after a line was delivered and
\* while another waited in the queue; the consumer, the reader and the
\* with-block each closed the response.
C22_Witness ==
    /\ q_abort
    /\ consumer_pc = "exited"
    /\ delivered # <<>>
    /\ queue # <<>>
    /\ Len(closes) = 3
    /\ reader_pc = "dead"

\* ------------------------------------------------------------------------
\* Properties of flush_remaining
\* ------------------------------------------------------------------------
\* C23: flush_remaining returns the pending text when there is some and
\* None when there is none; after it returns the buffer is in the state of
\* a new BlockBuffer (pending empty, in_code false, no closing pattern); a
\* second call right after it returns None.
C23_FlushExactlyOnce ==
    /\ [][flushed' # flushed
          => (/\ flushed'[Len(flushed')] = (IF pending = <<>> THEN NoneStr ELSE SomeStr(pending))
              /\ pending' = <<>>
              /\ ~in_code'
              /\ close_ch' = NoFence)]_vars
    /\ [](Len(flushed) >= 2 => flushed[2] = NoneStr)

\* C23 witness: flush_remaining was called inside an open code block,
\* returned the text, and the second call returned None.
C23_Witness ==
    /\ Len(flushed) = 2
    /\ flushed[1].some
    /\ OpenFenceSearch(flushed[1].val) # NoMatch
    /\ Concat(blocks) \o flushed[1].val = fed
    /\ ~flushed[2].some

\* ------------------------------------------------------------------------
\* Properties of iter_sse_lines
\* ------------------------------------------------------------------------
\* out is s without its leading whitespace
IsLStripOf(out, s) ==
    \E k \in 0..Len(s) :
        /\ out = Drop(s, k)
        /\ \A i \in 1..k : s[i] \in Whitespace
        /\ out = <<>> \/ out[1] \notin Whitespace

\* the positions of the non-empty raw lines
NonEmptyRaw == {i \in 1..Len(sse_raw) : sse_raw[i] # <<>>}

\* C24: iter_sse_lines yields, in wire order, one item per non-empty raw
\* line: for a line starting with data: the rest of the line without its
\* leading whitespace, for any other line the line itself; empty lines
\* yield nothing; when the status check fails nothing is yielded.
C24_OneItemPerNonEmptyLine ==
    /\ Len(sse_out) = Cardinality(NonEmptyRaw)
    /\ \A i \in NonEmptyRaw :
          LET k == Cardinality({j \in NonEmptyRaw : j <= i})
              raw == sse_raw[i]
          IN  IF Len(raw) >= 5 /\ SubSeq(raw, 1, 5) = <<"d", "a", "t", "a", ":">>
              THEN IsLStripOf(sse_out[k], SubSeq(raw, 6, Len(raw)))
              ELSE sse_out[k] = raw
    /\ sse_pc = "raised" => sse_out = <<>>

\* C24 witness: a data line with blanks after the colon, a keep-alive line
\* and a line of another field were read, and two items were yielded.
C24_Witness ==
    /\ Len(sse_raw) = 3
    /\ sse_raw[1] = DataPrefix \o <<SPC, SPC, "x", SPC>>
    /\ sse_raw[2] = <<>>
    /\ sse_raw[3] = <<"e", ":", SPC, "x">>
    /\ sse_out = << <<"x", SPC>>, <<"e", ":", SPC, "x">> >>

\* ------------------------------------------------------------------------
\* Properties of estimated usage
\* ------------------------------------------------------------------------
\* one count of a tokens value with the estimate tag added or removed
ToggleTag(part) == IF part # <<>> /\ part[1] = "~" THEN Tail(part) ELSE <<"~">> \o part

\* the tokens value with the same numbers and the other kind (estimated
\* for exact, exact for estimated)
OtherKind(value) ==
    LET parts == Split(value, "|")
    IN  JoinBar(<<ToggleTag(parts[1]), ToggleTag(parts[2]), ToggleTag(parts[3]), parts[4]>>)

\* send_message returned at a tokens event
ReturnedAtTokens ==
    /\ method = "send_message"
    /\ pc = "returned"
    /\ nproc = Len(seen)
    /\ seen # <<>>
    /\ seen[Len(seen)].kind = "tokens"

\* C25 as stated: send_message keeps the estimate tag: the StreamResult of
\* an estimated tokens event differs in some field from the StreamResult
\* of the exact tokens event with the same numbers.
C25_EstimateTagKept ==
    ReturnedAtTokens
    => result # TokensResult(LocNow, OtherKind(seen[Len(seen)].value), FALSE)

\* C25 amended: send_message drops the estimate tag: the StreamResult of an
\* estimated tokens event holds the total without the ~ and the cost, and
\* is equal in every field to the StreamResult of the exact tokens event
\* with the same numbers.
C25_EstimateTagDropped ==
    ReturnedAtTokens
    => /\ result.tokens = 11
       /\ result.cost = 18
       /\ result.error = NoError
       /\ result = TokensResult(LocNow, OtherKind(seen[Len(seen)].value), FALSE)

\* C25 witness: send_message returned at an estimated tokens event after
\* some text.
C25_Witness ==
    /\ ReturnedAtTokens
    /\ seen[Len(seen)].value[1] = "~"
    /\ result.text # <<>>
    /\ result.tokens = 11

\* ------------------------------------------------------------------------
\* Properties of the Bedrock cost
\* ------------------------------------------------------------------------
\* the claimed prices, in hundredths of a millionth of a dollar per token:
\* 0.00204 dollars per 1000 input tokens, 0.00988 per 1000 output tokens
ClaimedInputPrice == 204

ClaimedOutputPrice == 988

\* C26: the cost field of a Bedrock tokens event for i input and o output
\* tokens is i/1000 * 0.00204 + o/1000 * 0.00988 dollars, to six decimals.
C26_BedrockCostPer1K ==
    provider = "bedrock"
    => \A k \in Positions(events, "tokens") :
          LET parts == Split(events[k].value, "|")
              i == ToInt(parts[2])
              o == ToInt(parts[3])
              claimed == ClaimedInputPrice * i + ClaimedOutputPrice * o
              diff == ParseFloat(parts[4]) * 100 - claimed
          IN  -50 <= diff /\ diff <= 50

\* ------------------------------------------------------------------------
\* Properties of the Azure tool call events
\* ------------------------------------------------------------------------
\* the tool call fragments of the choices of a chunk, in order
RECURSIVE ChoiceFrags(_)
ChoiceFrags(choices) ==
    IF choices = <<>> THEN <<>> ELSE Head(choices).tool_calls \o ChoiceFrags(Tail(choices))

\* the tool call fragments of a list of lines, in arrival order
RECURSIVE Frags(_)
Frags(lines) ==
    IF lines = <<>> THEN <<>>
    ELSE (IF Head(lines).type = "chunk" THEN ChoiceFrags(Head(lines).choices) ELSE <<>>)
         \o Frags(Tail(lines))

\* the indices started by the first k fragments: those with a fragment
\* that carries both id and function.name
StartedBy(frags, k) ==
    {frags[j].index : j \in {j \in 1..k : frags[j].id # "" /\ frags[j].name # ""}}

\* what the claim says the fragments emit: tool_start at the first fragment
\* of an index with id and name, tool_input_delta for the arguments of a
\* fragment whose index is started, nothing else
RECURSIVE FragEvents(_, _)
FragEvents(frags, k) ==
    IF k = 0 THEN <<>>
    ELSE LET fr == frags[k]
             first == /\ fr.id # "" /\ fr.name # ""
                      /\ fr.index \notin StartedBy(frags, k - 1)
         IN  FragEvents(frags, k - 1)
             \o (IF first THEN <<Ev("tool_start", ToolJson(fr.id, fr.name))>> ELSE <<>>)
             \o (IF fr.arguments # <<>> /\ fr.index \in StartedBy(frags, k)
                 THEN <<Ev("tool_input_delta", fr.arguments)>> ELSE <<>>)

ToolKindsOf(es) ==
    SelectSeq(es, LAMBDA e : e.kind \in {"tool_start", "tool_input_delta", "tool_ready"})

\* the last line read is a chunk with finish_reason tool_calls
FinishedWithToolCalls ==
    /\ wire # <<>>
    /\ wire[Len(wire)].type = "chunk"
    /\ \E c \in 1..Len(wire[Len(wire)].choices) :
          wire[Len(wire)].choices[c].finish_reason = "tool_calls"

\* C27: in the Azure mapper tool_start is emitted once per index, at its
\* first fragment with id and function.name; tool_input_delta is emitted
\* for the arguments of the fragments of a started index, in arrival order;
\* fragments of an index that was not started emit nothing; a chunk with
\* finish_reason tool_calls emits one tool_ready per started index, after
\* all the deltas.
C27_AzureToolCallEvents ==
    provider = "azure"
    => LET frags == Frags(wire)
           open == StartedBy(frags, Len(frags))
       IN  ToolKindsOf(events)
           = FragEvents(frags, Len(frags))
             \o (IF FinishedWithToolCalls
                 THEN [n \in 1..Cardinality(open) |-> Ev("tool_ready", <<>>)]
                 ELSE <<>>)

\* C27 witness: fragments of an index that was never started came first,
\* two calls were started, arguments were emitted, and the finish chunk
\* emitted two tool_ready events.
C27_Witness ==
    /\ provider = "azure"
    /\ Frags(wire) # <<>>
    /\ Frags(wire)[1].index = 2
    /\ Len(SelectSeq(events, LAMBDA e : e.kind = "tool_start")) = 2
    /\ \E k \in 1..Len(events) : events[k].kind = "tool_input_delta"
    /\ Len(events) >= 2
    /\ events[Len(events)].kind = "tool_ready"
    /\ events[Len(events) - 1].kind = "tool_ready"
    /\ mapper_done

\* ------------------------------------------------------------------------
\* Properties of the two-frame confirmation
\* ------------------------------------------------------------------------
\* C28: in a non-final update (the only step that changes printed and
\* leaves the live region running) a line is appended to printed only if
\* last_rendered, the render of the frame processed before, has the
\* identical line at the same index; with no frame processed before
\* (the first update of a turn) a non-final update prints nothing.
C28_TwoFrameConfirmation ==
    [][ live'
        => /\ printed' # printed
              => /\ IsPrefix(printed, printed')
                 /\ \A k \in (Len(printed) + 1)..Len(printed') :
                       /\ k <= Len(last_rendered)
                       /\ last_rendered[k] = printed'[k]
           /\ last_rendered = <<>>
              => /\ printed' = printed
                 /\ console_out' = console_out ]_vars

\* C28 witness: non-final updates alone have printed two different lines,
\* both as the previous frame rendered them.
C28_Witness ==
    /\ ~finalized
    /\ Len(printed) = 2
    /\ printed[1] # printed[2]
    /\ console_out = printed
    /\ IsPrefix(printed, last_rendered)

\* C29: in any update, final or not, in which the printed lines are not a
\* prefix of the new render, nothing is written to permanent output and
\* printed is left unchanged: a step that changes either has processed a
\* render (last_rendered afterwards) that starts with the printed lines.
C29_ReflowFreezesPrinted ==
    [][ (printed' # printed \/ console_out' # console_out)
        => IsPrefix(printed, last_rendered') ]_vars

\* C29 witness: a frame whose render changed a printed line was processed
\* (it is the last render, and the live region shows its lines after the
\* unchanged ones) and the two printed lines are still there.
C29_Witness ==
    /\ Len(printed) = 2
    /\ console_out = printed
    /\ ~IsPrefix(printed, last_rendered)
    /\ Len(last_rendered) >= 2
    /\ live
    /\ live_view = Drop(last_rendered, CommonPrefixLen(printed, last_rendered))

\* ------------------------------------------------------------------------
\* Properties of the thinking phase
\* ------------------------------------------------------------------------
\* the thinking text received since the last text event
RECURSIVE ThinkingSinceText(_)
ThinkingSinceText(es) ==
    IF es = <<>> \/ es[Len(es)].kind = "text" THEN <<>>
    ELSE ThinkingSinceText(SubSeq(es, 1, Len(es) - 1))
         \o (IF es[Len(es)].kind = "thinking" THEN es[Len(es)].value ELSE <<>>)

\* C30: when a text event is rendered while the renderer is in the
\* thinking phase, the whole thinking text received in the phase is
\* written to permanent output, followed by the separator line, before
\* any response line is printed; the live region no longer shows
\* thinking text but the response; and the thinking phase is over.
C30_ThinkingFinalizedBeforeResponse ==
    [][ ( /\ IsLive /\ pc = "loop" /\ in_thinking_phase
          /\ Len(seen') = Len(seen) + 1
          /\ seen'[Len(seen')].kind = "text" )
        => /\ ~in_thinking_phase'
           /\ thinking_out' = IF ThinkingSinceText(seen) # <<>>
                              THEN Append(thinking_out, ThinkingSinceText(seen))
                              ELSE thinking_out
           /\ IsPrefix(Append(console_out, ""), console_out')
           /\ live_view' # ThinkingView
           /\ live_view' \in {Blank} \cup ClientRenders ]_vars

\* C30 witness: two thinking events were followed by a text event; the
\* text of both was printed as one piece and the live region shows the
\* response.
C30_Witness ==
    /\ IsLive
    /\ Len(seen) = 3
    /\ seen[1] = Ev("thinking", <<"h">>)
    /\ seen[2] = Ev("thinking", <<"k">>)
    /\ seen[3].kind = "text"
    /\ thinking_out = << <<"h", "k">> >>
    /\ ~in_thinking_phase
    /\ live_view = <<"x">>

\* ------------------------------------------------------------------------
\* Properties of the closing fence
\* ------------------------------------------------------------------------
\* s without its trailing blanks and line feeds
RECURSIVE StripTrailWs(_)
StripTrailWs(s) ==
    IF s # <<>> /\ s[Len(s)] \in Whitespace THEN StripTrailWs(SubSeq(s, 1, Len(s) - 1)) ELSE s

\* length of the run of character c that ends s
RECURSIVE TrailRunLen(_, _)
TrailRunLen(s, c) ==
    IF s # <<>> /\ s[Len(s)] = c THEN 1 + TrailRunLen(SubSeq(s, 1, Len(s) - 1), c) ELSE 0

\* a block that begins with an opening fence
IsCodeBlock(b) ==
    Len(b) >= 3 /\ b[1] \in {BQ, TILDE} /\ b[2] = b[1] /\ b[3] = b[1]

\* C31: a code block opened by a fence of n fence characters is closed
\* only by a line-start run of at least n of the same character: every
\* code block returned ends, before its trailing white space, with a run
\* of the opening fence's character that is at least as long as the
\* opening fence.
C31_CloserAtLeastAsLong ==
    \A i \in 1..Len(blocks) :
       IsCodeBlock(blocks[i])
       => LET b == blocks[i]
              n == RunEnd(b, 0, {b[1]})
          IN  TrailRunLen(StripTrailWs(b), b[1]) >= n

\* ------------------------------------------------------------------------
\* Properties of the block boundaries
\* ------------------------------------------------------------------------
\* offset in fed at which block i ends
BlockEnd(i) == Len(Concat(SubSeq(blocks, 1, i)))

\* b ends with a blank-line paragraph break
EndsWithParaBreak(b) ==
    Len(b) >= 2 /\ b[Len(b)] = LF /\ b[Len(b) - 1] = LF

\* b is a code block that ends right after its closing fence line: a line
\* after the opening fence line that holds a run of the fence character
EndsWithClosingFence(b) ==
    /\ IsCodeBlock(b)
    /\ \E p \in (FindLF(b, 0) + 1)..(Len(b) - 1) :
          /\ FindLF(b, 0) # -1
          /\ CloseFenceAt(b, p, b[1]) # NoMatch
          /\ CloseFenceAt(b, p, b[1]).end = Len(b)

\* C32: every block returned by feed is non-empty and ends right after a
\* blank-line paragraph break, right after a closing fence line or right
\* before an opening fence line, so it ends with a line feed; feed with
\* empty text returns no block and changes no state.
C32_BlocksEndAtBoundaries ==
    /\ \A i \in 1..Len(blocks) :
          /\ blocks[i] # <<>>
          /\ blocks[i][Len(blocks[i])] = LF
          /\ \/ EndsWithParaBreak(blocks[i])
             \/ EndsWithClosingFence(blocks[i])
             \/ OpenFenceAt(fed, BlockEnd(i)) # NoMatch
    /\ FeedResult(pending, in_code, close_ch, <<>>)
       = BufState(pending, in_code, close_ch, <<>>)

\* the parts of C32 that do not depend on which line closes a code block
C32_BlocksEndWithLineFeed ==
    /\ \A i \in 1..Len(blocks) :
          /\ blocks[i] # <<>>
          /\ blocks[i][Len(blocks[i])] = LF
    /\ FeedResult(pending, in_code, close_ch, <<>>)
       = BufState(pending, in_code, close_ch, <<>>)

\* ------------------------------------------------------------------------
\* Properties of tool events without an open call or without an executor
\* ------------------------------------------------------------------------
ToolKinds == {"tool_start", "tool_input_delta", "tool_ready"}

\* C33: a tool_ready event that arrives when no tool call is open, and
\* any tool event when no executor is configured, invokes no executor,
\* appends no record and leaves the accumulated text and the model name
\* unchanged.
C33_StrayToolEventsDoNothing ==
    [][ ( /\ pc = "loop"
          /\ Len(seen') = Len(seen) + 1
          /\ LET e == seen'[Len(seen')]
             IN  \/ e.kind = "tool_ready" /\ ~current_tool.some
                 \/ e.kind \in ToolKinds /\ ~has_executor )
        => /\ executed' = executed
           /\ tool_calls_made' = tool_calls_made
           /\ text_buffer' = text_buffer
           /\ model_name' = model_name ]_vars

\* C33 witness: with an executor, after text and one completed call a
\* second tool_ready arrived and left the one record, the text and the
\* open-call slot as they were.
C33_Witness ==
    /\ has_executor
    /\ Len(seen) = 4
    /\ seen[1].kind = "text"
    /\ seen[2].kind = "tool_start"
    /\ seen[3].kind = "tool_ready"
    /\ seen[4].kind = "tool_ready"
    /\ Len(executed) = 1
    /\ Len(tool_calls_made) = 1
    /\ text_buffer = << <<"a">> >>
    /\ pc = "loop"

\* ------------------------------------------------------------------------
\* Properties of the text of a turn
\* ------------------------------------------------------------------------
\* the content of the choices of a chunk, in order
RECURSIVE ChoiceText(_)
ChoiceText(choices) ==
    IF choices = <<>> THEN <<>> ELSE Head(choices).content \o ChoiceText(Tail(choices))

\* the text deltas of the lines up to the terminator line [DONE]
RECURSIVE SentText(_)
SentText(lines) ==
    IF lines = <<>> \/ Head(lines) = DoneLine THEN <<>>
    ELSE (IF Head(lines).type = "chunk" THEN ChoiceText(Head(lines).choices) ELSE <<>>)
         \o SentText(Tail(lines))

\* the stream is over: its terminator line was sent or the input ended
StreamOver ==
    \/ lines_ended
    \/ \E k \in 1..Len(wire \o unread) : (wire \o unread)[k] = DoneLine

\* C34: when a turn has ended without error or abort, the text of the
\* StreamResult is the concatenation, in wire order, of every text delta
\* the provider sent before the end of the stream.
C34_TextIsEveryDelta ==
    ( /\ pc = "returned"
      /\ result.some
      /\ result.error = NoError
      /\ ~result.aborted
      /\ StreamOver )
    => result.text = SentText(wire \o unread)

\* ------------------------------------------------------------------------
\* Properties of the chunking
\* ------------------------------------------------------------------------
\* the blocks of the feed calls made, followed by the flushed remainder
BlocksAndRest ==
    blocks \o (IF flushed # <<>> /\ flushed[1].some THEN <<flushed[1].val>> ELSE <<>>)

\* the same for a new BlockBuffer that is fed the whole text in one call
BlocksOfOneFeed(text) ==
    LET r == FeedResult(<<>>, FALSE, NoFence, text)
    IN  r.out \o (IF r.pending # <<>> THEN <<r.pending>> ELSE <<>>)

\* C35: the blocks do not depend on how the text is split into feed
\* calls: the blocks returned by the feed calls followed by the
\* flush_remaining result are those of the same text fed in one call.
C35_ChunkingIndependent ==
    flushed # <<>> => BlocksAndRest = BlocksOfOneFeed(fed)

\* ------------------------------------------------------------------------
\* Properties of the live tail
\* ------------------------------------------------------------------------
\* C36: after every non-final update of a turn (before its final flush)
\* that is processed (not skipped by the frame-rate check, and not an
\* empty render under the waiting indicator) and in which the printed
\* lines are a prefix of the new render L, the live region shows exactly
\* L[len(printed):], so printed followed by the live tail is L.
C36_PrintedThenTailIsRender ==
    \A lines \in Renders :
       ( /\ ~finalized
         /\ IsPrefix(printed, lines)
         /\ ~(waiting_active /\ lines = <<>>) )
       => LET ms == MsUpdate(MsNow, lines, FALSE, FALSE)
          IN  /\ ms.live_view = Drop(lines, Len(ms.printed))
              /\ ms.printed \o ms.live_view = lines

\* ------------------------------------------------------------------------
\* Completeness of the queue-fed stream
\* ------------------------------------------------------------------------
\* iter_from_queue returned on its own: the reader was found dead after a
\* get timed out, and no cancel was observed
StoppedWithoutCancel == consumer_pc = "returned" /\ ~q_abort

\* C37: when the queue-fed stream ends without cancel, every non-empty
\* line the reader read from the response has been handed to the mapper:
\* no line was dropped on a full queue and none is left in the queue.
C37_EveryLineDelivered ==
    StoppedWithoutCancel
        => (/\ delivered = NonEmpty(SseItems(raw_read))
            /\ queue = <<>>)

\* ------------------------------------------------------------------------
\* The final flush
\* ------------------------------------------------------------------------
\* the last operation on the renderer was a final update: the Live was
\* stopped and last_rendered is the render of the flushed text
JustFlushed == finalized /\ ~live

\* C38: what update wrote to permanent output is exactly the printed
\* list, each line once; and a second final update with the text of the
\* one just done writes nothing and leaves the printed list alone.
C38_SecondFlushWritesNothing ==
    /\ console_out = printed
    /\ JustFlushed =>
          LET ms == MsUpdate(MsNow, last_rendered, TRUE, FALSE)
          IN  /\ ms.console_out = console_out
              /\ ms.printed = printed

\* C38 witness: a final update flushed a render of MaxLines lines, which
\* are all printed, and the second flush of that render is what the claim
\* evaluates in this state.
C38_Witness ==
    /\ JustFlushed
    /\ Len(printed) = MaxLines
    /\ printed = last_rendered
    /\ console_out = printed

\* ------------------------------------------------------------------------
\* Termination of the reader thread
\* ------------------------------------------------------------------------
\* the turn of stream_response_block is over: iter_from_queue returned or
\* the with-block was left
TurnEnded == consumer_pc \in {"returned", "exited"}

\* C39: after the turn has ended, by a done event, the end of the stream
\* or a cancel, the reader thread terminates: it does not wait forever for
\* room in a full queue or for the closed response.
C39_ReaderTerminates == TurnEnded ~> reader_pc = "dead"

\* C39 witness: the turn ended on a done event while lines were still
\* arriving; the reader filled the queue, its put timed out on the full
\* queue, a line was dropped, and the thread is dead.
C39_Witness ==
    /\ consumer_pc = "exited"
    /\ ~q_abort
    /\ reader_pc = "dead"
    /\ Len(queue) = QueueMax
    /\ Len(NonEmpty(SseItems(raw_read))) > Len(delivered) + Len(NonEmpty(queue))

\* ------------------------------------------------------------------------
\* Thinking text at the end of a turn
\* ------------------------------------------------------------------------
\* C40: when stream_with_live_rendering has returned while the renderer is
\* in the thinking phase, the thinking text received in the phase is in
\* the permanent output.
C40_ThinkingKeptAtTurnEnd ==
    ( /\ IsLive /\ pc = "returned"
      /\ in_thinking_phase
      /\ ThinkingSinceText(seen) # <<>> )
    => \E i \in 1..Len(thinking_out) : thinking_out[i] = ThinkingSinceText(seen)
====
